---- MODULE Spec2Model ----
(***************************************************************************)
(* neopipe: the Result type, the retrying task wrapper (BaseSyncTask /     *)
(* BaseAsyncTask.__call__), the sequential pipeline runs                   *)
(* (SyncPipeline.run, AsyncPipeline.run_sequence), the concurrent fan-out  *)
(* (AsyncPipeline.run) and the parallel runs of several pipelines          *)
(* (SyncPipeline.run_parallel, AsyncPipeline.run_parallel).                *)
(*                                                                         *)
(* Python values are tagged records [ty, v]; a Python str is a sequence of *)
(* string tokens, so that "contains" is a sub-sequence test and message    *)
(* formatting is modelled by what it produces.                             *)
(***************************************************************************)
EXTENDS Integers, Sequences, FiniteSets, TLC

VARIABLES
    kind,            \* "sync": SyncPipeline.run, "async": AsyncPipeline.run_sequence
    method,          \* the method of the pipeline its caller uses
    name,            \* self.name
    tasks,           \* self.tasks
    input_result,    \* the run's argument
    debug,           \* the run's argument
    pc,              \* where the run is
    idx,             \* position of the loop over self.tasks, from 1
    result,          \* `result` of run, `current` of run_sequence
    trace,           \* `trace`
    attempt,         \* __call__: the loop variable
    last_exception,  \* __call__: last_exception
    res,             \* what the task call returned
    raised,          \* the exception a task call let escape
    ret,             \* what the run returned or raised
    events,          \* history: what each call of the computation did, this invocation
    slept,           \* history: the backoff sleeps of this invocation
    log,             \* history: the task invocations of this run
    first,           \* history: the previous run of the same pipeline on the same input
    inputs,          \* fan-out and parallel runs: the list of inputs
    coros,           \* fan-out: the coroutines task(inp), one per pair
    results,         \* fan-out: what gather delivered
    order,           \* history: the units of a concurrent run in completion order
    pipelines,       \* parallel runs: the list of pipelines
    max_workers,     \* SyncPipeline.run_parallel: the size of the thread pool
    futures,         \* SyncPipeline.run_parallel: the submitted runs, by position
    traces,          \* SyncPipeline.run_parallel: `traces`
    yielded          \* SyncPipeline.run_parallel: the futures as_completed has yielded

\* the state of SyncPipeline.run_parallel
par == <<pipelines, max_workers, futures, traces, yielded>>

\* the state of the concurrent runs, which a sequential run leaves alone
conc == <<inputs, coros, results, order, par>>

vars == <<kind, method, name, tasks, input_result, debug, pc, idx, result, trace,
          attempt, last_exception, res, raised, ret, events, slept, log, first,
          inputs, coros, results, order,
          pipelines, max_workers, futures, traces, yielded>>

(***************************************************************************)
(* Bounds.                                                                 *)
(***************************************************************************)
MaxTasks == 3
MaxRetries == 2

(***************************************************************************)
(* Python values.                                                          *)
(***************************************************************************)
Int_(n) == [ty |-> "int", v |-> n]
Str(s) == [ty |-> "str", v |-> s]
None == [ty |-> "None", v |-> 0]
Tuple(s) == [ty |-> "tuple", v |-> s]
List(s) == [ty |-> "list", v |-> s]

\* str(x) / f"{x}" for the values that reach a message
Format(x) ==
    IF x.ty = "str" THEN x.v
    ELSE IF x.ty = "int" THEN <<ToString(x.v)>>
    ELSE IF x.ty = "None" THEN <<"None">>
    ELSE <<ToString(x.v)>>

\* a call either returns a value or raises an exception
NoExc == "no exception"
Return(x) == [exc |-> NoExc, val |-> x]
Raise(type, msg) == [exc |-> type, val |-> Str(msg)]
Pending == [exc |-> "pending", val |-> None]

(***************************************************************************)
(* result.py: Result                                                       *)
(***************************************************************************)
Ok(value) == [is_ok |-> TRUE, value |-> value]
Err(error) == [is_ok |-> FALSE, value |-> error]
is_ok(self) == self.is_ok
is_err(self) == ~self.is_ok
err(self) == IF ~self.is_ok THEN self.value ELSE None
unwrap(self) ==
    IF self.is_ok THEN Return(self.value)
    ELSE Raise("UnwrapError", <<"Called unwrap on Err: ">> \o Format(self.value))

(***************************************************************************)
(* Tasks.  A task wraps a computation `func`, has a retry budget `retries` *)
(* (whatever the constructor was given: an int, or a non-int such as None) *)
(* and `faults`: the number of leading calls of the computation that       *)
(* raise, counted per invocation of the task.                              *)
(***************************************************************************)
Funcs == {"add_one", "multiply_two", "fail_task"}

task_name(task) == task.func

\* the wrapped computations of the test suites
execute(task, inp) ==
    IF task.func = "add_one"
    THEN IF is_ok(inp) THEN Ok(Int_(inp.value.v + 1)) ELSE inp
    ELSE IF task.func = "multiply_two"
    THEN IF is_ok(inp) THEN Ok(Int_(inp.value.v * 2)) ELSE inp
    ELSE IF task.func = "to_one"
    THEN Ok(Int_(1))
    ELSE Err(Str(<<"error occurred">>))

\* text of the exception raised by the c-th call of a faulty computation
FaultText(c) == <<"Temporary failure ", ToString(c)>>

\* the computation raises on its first task.faults calls
Raises(task, c) == c <= task.faults

\* range(1, self.retries + 1) needs an int
BudgetIsInt(task) == task.retries.ty = "int"
BudgetError == <<"unsupported operand type(s) for +: 'NoneType' and 'int'">>

\* for attempt in range(1, self.retries + 1)
InRangeOffByOne(a, task) == a < task.retries.v
InRange(a, task) == a <= task.retries.v

\* both branches of `if result.is_ok()` return the result
ReturnsOnlyOk(r) == is_ok(r)
ReturnsResult(r) == TRUE

\* the loop variable after an attempt that raised
NextAttemptSkips(a) == a + 2
NextAttempt(a) == a + 1

RECURSIVE Pow2(_)
Pow2(n) == IF n <= 0 THEN 1 ELSE 2 * Pow2(n - 1)

\* time.sleep(2 ** (attempt - 1))
BackoffConstant(a) == 1
Backoff(a) == Pow2(a - 1)

\* the except branch sleeps after every attempt that raised, the last included
SleepsBetween(sl, a, task) == IF a < task.retries.v THEN Append(sl, Backoff(a)) ELSE sl
Sleeps(sl, a, task) == Append(sl, Backoff(a))

\* Err(f"[{self.task_name}] failed after {self.retries} retries: {last_exception}")
ExhaustedMessage(task, last) ==
    <<"[", task_name(task), "]", " failed after ">> \o Format(task.retries)
        \o <<" retries: ">> \o Format(last)

(***************************************************************************)
(* Pipelines.                                                              *)
(***************************************************************************)
\* if debug: trace.append((self.name, result))       (SyncPipeline.run only)
InitTraceNoHeader(k, n, inp, d) == <<>>
InitTrace(k, n, inp, d) ==
    IF k = "sync" /\ d THEN <<Tuple(<<Str(<<n>>), inp>>)>> ELSE <<>>

\* the argument the next task is called with: result / current
TaskInputFirst(cur, inp) == inp
TaskInput(cur, inp) == cur

\* except Exception as e: return Err(...)
OnException(k, task, e) ==
    IF k = "sync"
    THEN Err(Str(<<"Exception in task ", task_name(task), ": ">> \o Format(e.val)))
    ELSE Err(Str(Format(e.val)))

\* trace.append((task_name, result)): under `if debug` in SyncPipeline.run,
\* unconditional in AsyncPipeline.run_sequence
AppendTraceOkOnly(k, tr, task, r, d) ==
    IF (k = "async" \/ d) /\ is_ok(r)
    THEN Append(tr, Tuple(<<Str(<<task_name(task)>>), r>>)) ELSE tr
AppendTrace(k, tr, task, r, d) ==
    IF k = "async" \/ d
    THEN Append(tr, Tuple(<<Str(<<task_name(task)>>), r>>)) ELSE tr

\* `result = task(result)` assigns before the failure test; run_sequence
\* assigns `current = res` only after it
Current(k, cur, r) == IF k = "sync" \/ is_ok(r) THEN r ELSE cur

\* return Ok((None, trace)) if debug else result
OnErr(tr, r, d) == IF d THEN Ok(Tuple(<<None, List(tr)>>)) ELSE r

\* the statement after the loop
Final(k, cur, tr, d) ==
    IF k = "sync"
    THEN IF ~d THEN Return(cur)
         ELSE IF unwrap(cur).exc = NoExc
              THEN Return(Ok(Tuple(<<unwrap(cur).val, List(tr)>>)))
              ELSE unwrap(cur)
    ELSE IF unwrap(cur).exc # NoExc THEN unwrap(cur)
         ELSE IF d THEN Return(Ok(Tuple(<<unwrap(cur).val, List(tr)>>)))
              ELSE Return(Ok(unwrap(cur).val))

(***************************************************************************)
(* Inputs of the model.                                                    *)
(***************************************************************************)
Budgets == {Int_(n) : n \in 0..MaxRetries} \cup {None}

AllTasks == [func : Funcs, retries : Budgets, faults : 0..MaxRetries]

T(f, r, k) == [func |-> f, retries |-> r, faults |-> k]

\* the tasks used to build pipelines of more than one task
Fixtures ==
    { T("add_one", Int_(1), 0),
      T("multiply_two", Int_(1), 0),
      T("fail_task", Int_(MaxRetries), 0),
      T("add_one", Int_(MaxRetries), MaxRetries - 1),
      T("multiply_two", Int_(MaxRetries), MaxRetries),
      T("add_one", None, 0) }

SeqsUpTo(S, n) == UNION {[1..m -> S] : m \in 0..n}

Pipelines == {<<t>> : t \in AllTasks} \cup SeqsUpTo(Fixtures, MaxTasks)

Inputs == {Ok(Int_(1)), Ok(Int_(2)), Err(Str(<<"bad input">>))}

(***************************************************************************)
(* The state machine.                                                      *)
(***************************************************************************)
Init ==
    /\ kind \in {"sync", "async"}
    /\ method = "run"
    /\ name = "P1"
    /\ tasks \in Pipelines
    /\ input_result = None
    /\ debug = FALSE
    /\ pc = "idle"
    /\ idx = 0
    /\ result = None
    /\ trace = <<>>
    /\ attempt = 0
    /\ last_exception = None
    /\ res = None
    /\ raised = Pending
    /\ ret = Pending
    /\ events = <<>>
    /\ slept = <<>>
    /\ log = <<>>
    /\ first = <<>>
    /\ inputs = <<>>
    /\ coros = <<>>
    /\ results = <<>>
    /\ order = <<>>
    /\ pipelines = <<>>
    /\ max_workers = 0
    /\ futures = <<>>
    /\ traces = <<>>
    /\ yielded = {}

\* enumerate(self.tasks) starts at the first task, whatever the input is
FirstTaskIfOk(ts, inp) == IF is_ok(inp) THEN 1 ELSE Len(ts) + 1
FirstTask(ts, inp) == 1

\* SyncPipeline.run / AsyncPipeline.run_sequence up to the loop
Start(inp, d) ==
    /\ input_result' = inp
    /\ debug' = d
    /\ trace' = InitTrace(kind, name, inp, d)
    /\ result' = inp
    /\ idx' = FirstTask(tasks, inp)
    /\ pc' = "loop"
    /\ attempt' = 0
    /\ last_exception' = None
    /\ res' = None
    /\ raised' = Pending
    /\ ret' = Pending
    /\ events' = <<>>
    /\ slept' = <<>>
    /\ log' = <<>>
    /\ UNCHANGED <<kind, method, name, tasks>>
    /\ UNCHANGED conc

\* the caller runs the pipeline
Run(inp, d) ==
    /\ pc = "idle"
    /\ Start(inp, d)
    /\ UNCHANGED first

\* the caller runs the same pipeline on the same input with the other debug flag
RunAgain ==
    /\ pc = "done"
    /\ first = <<>>
    /\ first' = <<[debug |-> debug, ret |-> ret, log |-> log]>>
    /\ Start(input_result, ~debug)

\* one task invocation, as the run saw it
Invocation(i, inp, ev, sl, out) ==
    [task |-> i, input |-> inp, events |-> ev, slept |-> sl, out |-> out]

\* the loop takes the next task and calls it: task(result)
Invoke ==
    /\ pc = "loop"
    /\ idx <= Len(tasks)
    /\ events' = <<>>
    /\ slept' = <<>>
    /\ last_exception' = None
    /\ res' = None
    /\ IF BudgetIsInt(tasks[idx])
       THEN /\ attempt' = 1
            /\ pc' = "attempt"
            /\ UNCHANGED <<raised, log>>
       ELSE /\ raised' = Raise("TypeError", BudgetError)
            /\ log' = Append(log, Invocation(idx, TaskInput(result, input_result),
                                             <<>>, <<>>,
                                             Raise("TypeError", BudgetError)))
            /\ pc' = "except"
            /\ UNCHANGED attempt
    /\ UNCHANGED <<kind, method, name, tasks, input_result, debug, idx, result, trace,
                   ret, first>>
    /\ UNCHANGED conc

\* one iteration of the retry loop of __call__
Attempt ==
    /\ pc = "attempt"
    /\ InRange(attempt, tasks[idx])
    /\ IF Raises(tasks[idx], Len(events) + 1)
       THEN /\ events' = Append(events,
                                Raise("Exception", FaultText(Len(events) + 1)))
            /\ last_exception' = Str(FaultText(Len(events) + 1))
            /\ slept' = Sleeps(slept, attempt, tasks[idx])
            /\ attempt' = NextAttempt(attempt)
            /\ UNCHANGED <<res, pc, log>>
       ELSE LET r == execute(tasks[idx], TaskInput(result, input_result)) IN
            /\ events' = Append(events, Return(r))
            /\ IF ReturnsResult(r)
               THEN /\ res' = r
                    /\ pc' = "returned"
                    /\ log' = Append(log,
                           Invocation(idx, TaskInput(result, input_result),
                                      Append(events, Return(r)), slept, Return(r)))
                    /\ UNCHANGED <<last_exception, slept, attempt>>
               ELSE /\ attempt' = NextAttempt(attempt)
                    /\ UNCHANGED <<res, pc, log, last_exception, slept>>
    /\ UNCHANGED <<kind, method, name, tasks, input_result, debug, idx, result, trace,
                   raised, ret, first>>
    /\ UNCHANGED conc

\* the retry loop is over without a return
Exhausted ==
    /\ pc = "attempt"
    /\ ~InRange(attempt, tasks[idx])
    /\ res' = Err(Str(ExhaustedMessage(tasks[idx], last_exception)))
    /\ log' = Append(log,
           Invocation(idx, TaskInput(result, input_result), events, slept,
                      Return(Err(Str(ExhaustedMessage(tasks[idx], last_exception))))))
    /\ pc' = "returned"
    /\ UNCHANGED <<kind, method, name, tasks, input_result, debug, idx, result, trace,
                   attempt, last_exception, raised, ret, events, slept, first>>
    /\ UNCHANGED conc

\* the pipeline's except branch
Except ==
    /\ pc = "except"
    /\ ret' = Return(OnException(kind, tasks[idx], raised))
    /\ pc' = "done"
    /\ UNCHANGED <<kind, method, name, tasks, input_result, debug, idx, result, trace,
                   attempt, last_exception, res, raised, events, slept, log, first>>
    /\ UNCHANGED conc

\* if result.is_err(): ... return     (whatever debug is)
StopsUnlessDebug(r, d) == is_err(r) /\ ~d
Stops(r, d) == is_err(r)

\* for idx, task in enumerate(self.tasks): the loop moves on to the next task
SameTask(i) == i
NextTask(i) == i + 1

\* the rest of the loop body after the task has returned
Step ==
    /\ pc = "returned"
    /\ result' = Current(kind, result, res)
    /\ trace' = AppendTrace(kind, trace, tasks[idx], res, debug)
    /\ IF Stops(res, debug)
       THEN /\ ret' = Return(OnErr(AppendTrace(kind, trace, tasks[idx], res, debug),
                                   res, debug))
            /\ pc' = "done"
            /\ UNCHANGED idx
       ELSE /\ idx' = NextTask(idx)
            /\ pc' = "loop"
            /\ UNCHANGED ret
    /\ UNCHANGED <<kind, method, name, tasks, input_result, debug, attempt,
                   last_exception, res, raised, events, slept, log, first>>
    /\ UNCHANGED conc

\* the loop is over: the final return
Finish ==
    /\ pc = "loop"
    /\ idx > Len(tasks)
    /\ ret' = Final(kind, result, trace, debug)
    /\ pc' = "done"
    /\ UNCHANGED <<kind, method, name, tasks, input_result, debug, idx, result, trace,
                   attempt, last_exception, res, raised, events, slept, log, first>>
    /\ UNCHANGED conc

Next ==
    \/ \E inp \in Inputs, d \in BOOLEAN : Run(inp, d)
    \/ RunAgain
    \/ Invoke
    \/ Attempt
    \/ Exhausted
    \/ Except
    \/ Step
    \/ Finish

Spec == Init /\ [][Next]_vars

(***************************************************************************)
(* Vocabulary of the properties.                                           *)
(***************************************************************************)
\* the token sequence sub occurs in msg
Contains(msg, sub) ==
    \E i \in 1..(Len(msg) - Len(sub) + 1) : SubSeq(msg, i, i + Len(sub) - 1) = sub

IsRaise(c) == c.exc # NoExc
IsReturn(c) == c.exc = NoExc
Failed(c) == IsReturn(c) /\ is_err(c.val)
Succeeded(c) == IsReturn(c) /\ is_ok(c.val)

\* a run returned Ok((value, trace)): the report of a debug run
CarriesTrace(c, d) ==
    d /\ IsReturn(c) /\ is_ok(c.val) /\ c.val.value.ty = "tuple"

\* the Outcome a returned run reports: the returned Result, or Ok(value) of the
\* (value, trace) pair of a debug run
ReportResult(c, d) == IF CarriesTrace(c, d) THEN Ok(c.val.value.v[1]) ELSE c.val

\* the trace a debug run reports
ReportTrace(c) == c.val.value.v[2].v

TraceEntry(i) == Tuple(<<Str(<<task_name(tasks[log[i].task])>>), log[i].out.val>>)

\* every task has the retry budget the data model asks for: an int n >= 1
BudgetsValid == \A i \in 1..Len(tasks) : BudgetIsInt(tasks[i]) /\ tasks[i].retries.v >= 1

\* the task of a logged invocation, and its integer budget
TaskOf(e) == tasks[e.task]
Budget(e) == TaskOf(e).retries.v

(***************************************************************************)
(* C1. Retry budget exhaustion: a task with budget n >= 1 whose computation *)
(* raises on every call calls it exactly n times and then returns a        *)
(* failure whose message names the task, contains "failed after n" and     *)
(* the text of the last fault raised.                                      *)
(***************************************************************************)
AlwaysRaises(t) == BudgetIsInt(t) /\ t.retries.v >= 1 /\ t.faults >= t.retries.v

C1_RetryBudgetExhaustion ==
    /\ \A i \in 1..Len(log) :
         LET e == log[i] IN
         AlwaysRaises(TaskOf(e)) =>
           /\ Len(e.events) = Budget(e)
           /\ \A c \in 1..Len(e.events) : IsRaise(e.events[c])
           /\ Failed(e.out)
           /\ e.out.val.value.ty = "str"
           /\ Contains(e.out.val.value.v, <<task_name(TaskOf(e))>>)
           /\ Contains(e.out.val.value.v, <<" failed after ", ToString(Budget(e))>>)
           /\ Contains(e.out.val.value.v, e.events[Budget(e)].val.v)
    /\ (pc = "attempt" /\ AlwaysRaises(tasks[idx])) =>
           Len(events) <= tasks[idx].retries.v

C1_Witness ==
    /\ pc = "returned"
    /\ AlwaysRaises(tasks[idx])
    /\ tasks[idx].retries.v = MaxRetries
    /\ Len(events) = MaxRetries
    /\ Failed(Return(res))

(***************************************************************************)
(* C2. No retry on logical failure: whatever the budget, a task whose      *)
(* computation returns a failure on its first call is called once and      *)
(* returns that failure unchanged, without any backoff sleep.              *)
(***************************************************************************)
C2_NoRetryOnLogicalFailure ==
    /\ \A i \in 1..Len(log) :
         LET e == log[i] IN
         (Len(e.events) >= 1 /\ Failed(e.events[1])) =>
           /\ Len(e.events) = 1
           /\ e.out = e.events[1]
           /\ e.slept = <<>>
    /\ (pc = "attempt" /\ Len(events) >= 1) => ~Failed(events[1])

C2_Witness ==
    /\ pc = "returned"
    /\ tasks[idx].retries.v = MaxRetries
    /\ Len(events) = 1
    /\ Failed(events[1])
    /\ res = events[1].val

(***************************************************************************)
(* C3. Retry then return: a task with budget n whose computation raises on *)
(* its first k calls (0 <= k < n) and then returns r returns exactly r     *)
(* after exactly k+1 calls; no attempt follows the first normal return.    *)
(***************************************************************************)
C3_RetryThenReturn ==
    /\ \A i \in 1..Len(log) :
         LET e == log[i]
             t == TaskOf(e) IN
         (BudgetIsInt(t) /\ t.faults < t.retries.v) =>
           /\ Len(e.events) = t.faults + 1
           /\ \A c \in 1..t.faults : IsRaise(e.events[c])
           /\ IsReturn(e.events[t.faults + 1])
           /\ e.out = e.events[t.faults + 1]
           /\ e.out.val = execute(t, e.input)
    /\ \A c \in 1..Len(events) :
         IsReturn(events[c]) => (c = Len(events) /\ pc # "attempt")

C3_Witness ==
    /\ pc = "returned"
    /\ tasks[idx].faults = MaxRetries - 1
    /\ tasks[idx].faults >= 1
    /\ Len(events) = MaxRetries
    /\ Succeeded(events[MaxRetries])
    /\ res = events[MaxRetries].val

(***************************************************************************)
(* C4. Sequential short-circuit: once a task returns a failure no later    *)
(* task is invoked, and the run's result is that task's failure Outcome    *)
(* (stated for tasks with valid budgets).                                  *)
(***************************************************************************)
C4_ShortCircuitResult ==
    \A i \in 1..Len(log) :
        (BudgetsValid /\ Failed(log[i].out)) =>
          /\ i = Len(log)
          /\ pc = "done" =>
               (IsReturn(ret) /\ ReportResult(ret, debug) = log[i].out.val)

(***************************************************************************)
(* C5. Sequential chaining: when every task returns success the run        *)
(* invokes each registered task once, in registration order, the first on  *)
(* the run's input and each next one on the Outcome the previous one       *)
(* returned, and the run's result is the Outcome of the last task.         *)
(***************************************************************************)
AllSucceeded == \A i \in 1..Len(log) : Succeeded(log[i].out)

C5_SequentialChaining ==
    /\ \A i \in 1..Len(log) :
         /\ log[i].task = i
         /\ i = 1 => log[i].input = input_result
         /\ i > 1 => (Succeeded(log[i - 1].out) /\ log[i].input = log[i - 1].out.val)
    /\ (pc = "done" /\ AllSucceeded) =>
         /\ Len(log) = Len(tasks)
         /\ Len(tasks) >= 1 =>
              /\ IsReturn(ret)
              /\ ReportResult(ret, debug) = log[Len(log)].out.val

C5_Witness ==
    /\ pc = "done"
    /\ Len(tasks) = MaxTasks
    /\ Len(log) = MaxTasks
    /\ AllSucceeded
    /\ tasks[1].func # tasks[MaxTasks].func
    /\ IsReturn(ret)
    /\ ReportResult(ret, debug) = log[MaxTasks].out.val

(***************************************************************************)
(* C6. The result of a sequential run does not depend on the debug flag:   *)
(* two runs of one pipeline on one input that differ in the flag, and both *)
(* return, report the same Outcome (stated for tasks with valid budgets).  *)
(***************************************************************************)
C6_ResultIndependentOfDebug ==
    (/\ pc = "done" /\ first # <<>> /\ BudgetsValid
     /\ IsReturn(ret) /\ IsReturn(first[1].ret)) =>
        ReportResult(ret, debug) = ReportResult(first[1].ret, first[1].debug)

NoEscape == \A i \in 1..Len(log) : IsReturn(log[i].out)

Header == IF kind = "sync" THEN 1 ELSE 0

SyncTraceShape ==
    /\ CarriesTrace(ret, debug)
    /\ Len(ReportTrace(ret)) >= 1
    /\ ReportTrace(ret)[1].v[1] = Str(<<name>>)
    /\ \A i \in 1..Len(log) :
         /\ i + 1 <= Len(ReportTrace(ret))
         /\ ReportTrace(ret)[i + 1] = TraceEntry(i)

C9_EscapedFaultNamesTask ==
    \A i \in 1..Len(log) :
        IsRaise(log[i].out) =>
          /\ i = Len(log)
          /\ pc = "done" =>
               /\ Failed(ret)
               /\ Contains(ret.val.value.v, <<task_name(tasks[log[i].task])>>)
               /\ Contains(ret.val.value.v, log[i].out.val.v)

(***************************************************************************)
(* C10. A sequential run never raises: whatever the task list, the input   *)
(* and the debug flag, it returns (stated for tasks with valid budgets).   *)
(***************************************************************************)
C10_RunNeverRaises == (pc = "done" /\ BudgetsValid) => IsReturn(ret)

(***************************************************************************)
(* The concurrent fan-out: AsyncPipeline.run(inputs, debug).  Task i is    *)
(* called on input i; the coroutines run on one event loop, interleaved at *)
(* their awaits, and gather joins them.                                    *)
(***************************************************************************)
MaxFan == 2

\* if len(inputs) != len(self.tasks)
CountMismatchMore(ins, ts) == Len(ins) > Len(ts)
CountMismatch(ins, ts) == Len(ins) # Len(ts)

MismatchMessage == <<"Number of inputs must match number of tasks">>

\* the input zip pairs with task i
PairedFirst(ins, i) == ins[1]
Paired(ins, i) == ins[i]

\* the coroutine object task(inp), not started yet
Coroutine(inp) ==
    [pc |-> "created", input |-> inp, attempt |-> 0, last_exception |-> None,
     events |-> <<>>, slept |-> <<>>, out |-> Pending]

Min(a, b) == IF a <= b THEN a ELSE b

\* coros = [task(inp) for task, inp in zip(self.tasks, inputs)]
Zip(ts, ins) == [i \in 1..Min(Len(ts), Len(ins)) |-> Coroutine(Paired(ins, i))]

\* gather returns once every awaitable is done
GatherReadyAny(cs) == \E i \in DOMAIN cs : cs[i].pc = "done"
GatherReady(cs) == \A i \in DOMAIN cs : cs[i].pc = "done"

\* the coroutine ended by an exception
Raised(c) == c.pc = "done" /\ c.out.exc # NoExc

\* gather's list: the results in the order of the awaitables
GatherByCompletion(cs, ord) == [k \in 1..Len(ord) |-> cs[ord[k]].out.val]
GatherResults(cs, ord) == [i \in DOMAIN cs |-> cs[i].out.val]

\* the first exception raised in an awaitable, which gather propagates
FirstRaised(cs, ord) ==
    LET k == CHOOSE k \in 1..Len(ord) :
                 /\ Raised(cs[ord[k]])
                 /\ \A j \in 1..(k - 1) : ~Raised(cs[ord[j]])
    IN cs[ord[k]].out

\* if debug: trace.append((task.task_name, res))
FanTraceOkOnly(tr, task, r, d) ==
    IF d /\ is_ok(r) THEN Append(tr, Tuple(<<Str(<<task_name(task)>>), r>>)) ELSE tr
FanTrace(tr, task, r, d) ==
    IF d THEN Append(tr, Tuple(<<Str(<<task_name(task)>>), r>>)) ELSE tr

\* return Ok((None, trace)) if debug else res
FanOnErrNoTrace(tr, r, d) == r
FanOnErr(tr, r, d) == IF d THEN Ok(Tuple(<<None, List(tr)>>)) ELSE r

\* return Ok((outputs, trace)) if debug else Ok(outputs)
FanFinal(outputs, tr, d) ==
    IF d THEN Ok(Tuple(<<List(outputs), List(tr)>>)) ELSE Ok(List(outputs))

\* for task, res in zip(self.tasks, results): ...
RECURSIVE FanLoop(_, _, _, _, _, _)
FanLoop(ts, rs, d, i, outputs, tr) ==
    IF i > Min(Len(ts), Len(rs))
    THEN FanFinal(outputs, tr, d)
    ELSE IF is_err(rs[i])
         THEN FanOnErr(FanTrace(tr, ts[i], rs[i], d), rs[i], d)
         ELSE FanLoop(ts, rs, d, i + 1, Append(outputs, unwrap(rs[i]).val),
                      FanTrace(tr, ts[i], rs[i], d))

FanInputs == SeqsUpTo({Ok(Int_(1)), Ok(Int_(2))}, MaxFan)

FanInit ==
    /\ kind = "fanout"
    /\ method = "fanout"
    /\ name = "P1"
    /\ tasks \in SeqsUpTo(Fixtures, MaxFan)
    /\ input_result = None
    /\ debug = FALSE
    /\ pc = "idle"
    /\ idx = 0
    /\ result = None
    /\ trace = <<>>
    /\ attempt = 0
    /\ last_exception = None
    /\ res = None
    /\ raised = Pending
    /\ ret = Pending
    /\ events = <<>>
    /\ slept = <<>>
    /\ log = <<>>
    /\ first = <<>>
    /\ inputs = <<>>
    /\ coros = <<>>
    /\ results = <<>>
    /\ order = <<>>
    /\ pipelines = <<>>
    /\ max_workers = 0
    /\ futures = <<>>
    /\ traces = <<>>
    /\ yielded = {}

\* the variables of the sequential runs, which the fan-out leaves alone
seq == <<kind, method, name, tasks, input_result, idx, result, trace, attempt,
         last_exception, res, events, slept, log, first>>

\* the caller runs the fan-out: the count test and the creation of the coroutines
FanRun(ins, d) ==
    /\ pc = "idle"
    /\ inputs' = ins
    /\ debug' = d
    /\ IF CountMismatch(ins, tasks)
       THEN /\ ret' = Return(Err(Str(MismatchMessage)))
            /\ pc' = "done"
            /\ UNCHANGED coros
       ELSE /\ coros' = Zip(tasks, ins)
            /\ pc' = "gather"
            /\ UNCHANGED ret
    /\ UNCHANGED <<seq, raised, results, order, par>>

\* the event loop starts coroutine i, in creation order: __call__ up to range(...)
CoStart(i) ==
    /\ coros[i].pc = "created"
    /\ \A j \in 1..(i - 1) : coros[j].pc # "created"
    /\ IF BudgetIsInt(tasks[i])
       THEN /\ coros' = [coros EXCEPT ![i].pc = "attempt", ![i].attempt = 1]
            /\ UNCHANGED order
       ELSE /\ coros' = [coros EXCEPT ![i].pc = "done",
                                      ![i].out = Raise("TypeError", BudgetError)]
            /\ order' = Append(order, i)
    /\ UNCHANGED <<seq, inputs, debug, pc, raised, ret, results, par>>

\* one iteration of the retry loop of coroutine i
CoAttempt(i) ==
    LET c == coros[i] IN
    /\ c.pc = "attempt"
    /\ InRange(c.attempt, tasks[i])
    /\ IF Raises(tasks[i], Len(c.events) + 1)
       THEN /\ coros' = [coros EXCEPT
                  ![i].events = Append(c.events,
                                       Raise("Exception", FaultText(Len(c.events) + 1))),
                  ![i].last_exception = Str(FaultText(Len(c.events) + 1)),
                  ![i].slept = Append(c.slept, Backoff(c.attempt)),
                  ![i].attempt = NextAttempt(c.attempt)]
            /\ UNCHANGED order
       ELSE LET r == execute(tasks[i], c.input) IN
            IF ReturnsResult(r)
            THEN /\ coros' = [coros EXCEPT
                       ![i].events = Append(c.events, Return(r)),
                       ![i].out = Return(r),
                       ![i].pc = "done"]
                 /\ order' = Append(order, i)
            ELSE /\ coros' = [coros EXCEPT
                       ![i].events = Append(c.events, Return(r)),
                       ![i].attempt = NextAttempt(c.attempt)]
                 /\ UNCHANGED order
    /\ UNCHANGED <<seq, inputs, debug, pc, raised, ret, results, par>>

\* the retry loop of coroutine i is over without a return
CoExhausted(i) ==
    LET c == coros[i] IN
    /\ c.pc = "attempt"
    /\ ~InRange(c.attempt, tasks[i])
    /\ coros' = [coros EXCEPT
           ![i].out = Return(Err(Str(ExhaustedMessage(tasks[i], c.last_exception)))),
           ![i].pc = "done"]
    /\ order' = Append(order, i)
    /\ UNCHANGED <<seq, inputs, debug, pc, raised, ret, results, par>>

\* results = await asyncio.gather(*coros): every coroutine has returned
Gather ==
    /\ pc = "gather"
    /\ GatherReady(coros)
    /\ \A i \in DOMAIN coros : ~Raised(coros[i])
    /\ results' = GatherResults(coros, order)
    /\ pc' = "collect"
    /\ UNCHANGED <<seq, inputs, debug, coros, raised, ret, order, par>>

\* await asyncio.gather(*coros) raises the first exception of a coroutine; the
\* event loop has run the first step of every coroutine by then, and does not
\* cancel the others
GatherRaise ==
    /\ pc = "gather"
    /\ \E i \in DOMAIN coros : Raised(coros[i])
    /\ \A i \in DOMAIN coros : coros[i].pc # "created"
    /\ raised' = FirstRaised(coros, order)
    /\ pc' = "except"
    /\ UNCHANGED <<seq, inputs, debug, coros, ret, results, order, par>>

\* except Exception as e: return Err(str(e))
FanExcept ==
    /\ pc = "except"
    /\ ret' = Return(Err(Str(Format(raised.val))))
    /\ pc' = "done"
    /\ UNCHANGED <<seq, inputs, debug, coros, raised, results, order, par>>

\* the loop over zip(self.tasks, results) and the return
FanCollect ==
    /\ pc = "collect"
    /\ ret' = Return(FanLoop(tasks, results, debug, 1, <<>>, <<>>))
    /\ pc' = "done"
    /\ UNCHANGED <<seq, inputs, debug, coros, raised, results, order, par>>

FanNext ==
    \/ \E ins \in FanInputs, d \in BOOLEAN : FanRun(ins, d)
    \/ \E i \in DOMAIN coros : CoStart(i)
    \/ \E i \in DOMAIN coros : CoAttempt(i)
    \/ \E i \in DOMAIN coros : CoExhausted(i)
    \/ Gather
    \/ GatherRaise
    \/ FanExcept
    \/ FanCollect

FanSpec == FanInit /\ [][FanNext]_vars

(***************************************************************************)
(* Vocabulary of the fan-out properties.                                   *)
(***************************************************************************)
\* the fan-out run was given one input per registered task
Matched == Len(inputs) = Len(tasks)

\* coroutine i has finished, by a return or by an exception
Done(i) == coros[i].pc = "done"

(***************************************************************************)
(* C11. Fan-out count mismatch: a fan-out run called with a number of      *)
(* inputs different from the number of registered tasks returns at once    *)
(* the count-mismatch failure, and no task is invoked: no coroutine is     *)
(* even created.                                                           *)
(***************************************************************************)
C11_CountMismatchReturnsFailure ==
    (pc # "idle" /\ ~Matched) =>
        /\ pc = "done"
        /\ Failed(ret)
        /\ ret.val.value = Str(MismatchMessage)
        /\ coros = <<>>
        /\ order = <<>>

\* fewer inputs than tasks
C11_Witness ==
    /\ pc = "done"
    /\ Len(tasks) = MaxFan
    /\ Len(inputs) = MaxFan - 1
    /\ Failed(ret)
    /\ coros = <<>>

(***************************************************************************)
(* C12. Fan-out ordering: when the N tasks of a fan-out run on N inputs    *)
(* all return success, the run returns success and position i of its       *)
(* output list holds the value task i returned, which is that of task i    *)
(* applied to input i, whatever the order in which the tasks completed.    *)
(***************************************************************************)
AllReturnedOk == \A i \in DOMAIN coros : Succeeded(coros[i].out)

\* the output list of a returned fan-out run: Ok(outputs) or Ok((outputs, trace))
Outputs(c, d) == IF d THEN c.val.value.v[1].v ELSE c.val.value.v

C12_FanOutOrdering ==
    (pc = "done" /\ Matched /\ AllReturnedOk) =>
        /\ Succeeded(ret)
        /\ Len(Outputs(ret, debug)) = Len(tasks)
        /\ \A i \in 1..Len(tasks) :
             /\ Outputs(ret, debug)[i] = coros[i].out.val.value
             /\ Outputs(ret, debug)[i] = execute(tasks[i], inputs[i]).value

\* add_one, multiply_two on [Ok(1), Ok(2)], multiply_two completing first
C12_Witness ==
    /\ pc = "done"
    /\ ~debug
    /\ Len(tasks) = 2
    /\ tasks[1].func = "add_one" /\ tasks[2].func = "multiply_two"
    /\ inputs = <<Ok(Int_(1)), Ok(Int_(2))>>
    /\ order = <<2, 1>>
    /\ ret = Return(Ok(List(<<Int_(2), Int_(4)>>)))

(***************************************************************************)
(* C13, as claimed. Fan-out has no short-circuit in its result: for N      *)
(* tasks on N inputs that all return an Outcome, the returned run carries  *)
(* a list of exactly N entries, entry i standing for the Outcome task i    *)
(* returned, also when one or more tasks return a failure.                 *)
(***************************************************************************)
AllReturned == \A i \in DOMAIN coros : IsReturn(coros[i].out)

\* the run returned success carrying an output list
ListsOutputs(c, d) ==
    /\ Succeeded(c)
    /\ IF d THEN c.val.value.ty = "tuple" /\ c.val.value.v[1].ty = "list"
       ELSE c.val.value.ty = "list"

\* the output list has one entry per task, entry i carrying what task i returned
OneEntryPerTask ==
    /\ ListsOutputs(ret, debug)
    /\ Len(Outputs(ret, debug)) = Len(tasks)
    /\ \A i \in 1..Len(tasks) : Outputs(ret, debug)[i] = coros[i].out.val.value

C13_ResultListsEveryOutcome ==
    (pc = "done" /\ Matched /\ AllReturned) => OneEntryPerTask

(***************************************************************************)
(* C13, amended. For N tasks on N inputs that all return an Outcome, the   *)
(* run carries the ordered list of the N returned values exactly when      *)
(* every task returned success.  When one or more tasks return a failure   *)
(* the result is no list: with debug=False it is the failure Outcome of a  *)
(* failing task, unchanged, and with debug=True it is a success whose      *)
(* value is None.                                                          *)
(***************************************************************************)
C13_ResultListOnlyOnSuccess ==
    (pc = "done" /\ Matched /\ AllReturned) =>
        IF AllReturnedOk
        THEN OneEntryPerTask
        ELSE /\ ~ListsOutputs(ret, debug)
             /\ IsReturn(ret)
             /\ IF debug
                THEN /\ CarriesTrace(ret, debug)
                     /\ ret.val.value.v[1] = None
                ELSE \E i \in 1..Len(tasks) :
                         Failed(coros[i].out) /\ ret = coros[i].out

\* add_one succeeds, fail_task fails: the run returns fail_task's failure
C13_Witness ==
    /\ pc = "done"
    /\ Matched
    /\ ~debug
    /\ Len(tasks) = 2
    /\ tasks[1].func = "add_one" /\ tasks[2].func = "fail_task"
    /\ Succeeded(coros[1].out)
    /\ Failed(coros[2].out)
    /\ ret = coros[2].out

(***************************************************************************)
(* C14. Fan-out runs without cancellation: once the count precondition     *)
(* holds, the run creates one coroutine per registered task, on the        *)
(* task's paired input, and passes the join only when every one of them    *)
(* has run to completion, all of its retries included, also when a         *)
(* sibling returned a failure or exhausted its retries earlier (stated     *)
(* for tasks with valid budgets).                                          *)
(***************************************************************************)
\* the calls task t makes of its computation when it runs to completion
CallsToCompletion(t) == IF t.faults < t.retries.v THEN t.faults + 1 ELSE t.retries.v

C14_NoCancellation ==
    /\ (pc # "idle" /\ Matched) =>
          /\ DOMAIN coros = 1..Len(tasks)
          /\ \A i \in 1..Len(tasks) : coros[i].input = inputs[i]
    /\ (pc \in {"collect", "done"} /\ Matched /\ BudgetsValid) =>
          /\ Len(order) = Len(tasks)
          /\ \A i \in 1..Len(tasks) :
               /\ Done(i)
               /\ IsReturn(coros[i].out)
               /\ Len(coros[i].events) = CallsToCompletion(tasks[i])
               /\ \E k \in 1..Len(order) :
                    order[k] = i /\ \A j \in 1..Len(order) : order[j] = i => j = k

\* a task returns a failure first; a sibling then goes through all its retries
C14_Witness ==
    /\ pc = "done"
    /\ Matched
    /\ BudgetsValid
    /\ Len(tasks) = MaxFan
    /\ \E i, j \in 1..Len(tasks) :
         /\ i # j
         /\ order[1] = i
         /\ Failed(coros[i].out)
         /\ Done(j)
         /\ Len(coros[j].events) = MaxRetries
         /\ Len(coros[j].slept) >= 1

(***************************************************************************)
(* C15. AsyncPipeline.run result on failure: when every task returns and   *)
(* at least one returns a failure, the run with debug=False returns the    *)
(* failure Outcome of the failing task of lowest position, whichever task  *)
(* finished first, and the run with debug=True returns Ok((None, trace))   *)
(* where trace holds the entries of positions 1..k only, k being that      *)
(* position.                                                               *)
(***************************************************************************)
\* the lowest position of a task that returned a failure
FirstFailing ==
    CHOOSE k \in 1..Len(tasks) :
        Failed(coros[k].out) /\ \A j \in 1..(k - 1) : ~Failed(coros[j].out)

\* the trace entry of position i of a fan-out run
FanEntry(i) == Tuple(<<Str(<<task_name(tasks[i])>>), coros[i].out.val>>)

C15_FirstFailureInTaskOrder ==
    (pc = "done" /\ Matched /\ AllReturned /\ ~AllReturnedOk) =>
        IF ~debug
        THEN ret = coros[FirstFailing].out
        ELSE /\ CarriesTrace(ret, debug)
             /\ ret.val.value.v[1] = None
             /\ Len(ReportTrace(ret)) = FirstFailing
             /\ \A i \in 1..FirstFailing : ReportTrace(ret)[i] = FanEntry(i)

\* two failing tasks, the second finishing first: the run returns the first one's
\* failure
C15_Witness ==
    /\ pc = "done"
    /\ Matched
    /\ ~debug
    /\ Len(tasks) = 2
    /\ order = <<2, 1>>
    /\ Failed(coros[1].out)
    /\ Failed(coros[2].out)
    /\ coros[1].out # coros[2].out
    /\ ret = coros[1].out

(***************************************************************************)
(* C16, as claimed. Fan-out debug trace: a fan-out run with debug=True     *)
(* over N tasks that all return reports a trace of exactly N entries, one  *)
(* per task in task order, each (task name, the Outcome the task           *)
(* returned), whether the tasks succeeded or failed.                       *)
(***************************************************************************)
C16_TraceOnePerTask ==
    (pc = "done" /\ Matched /\ debug /\ AllReturned) =>
        /\ CarriesTrace(ret, debug)
        /\ Len(ReportTrace(ret)) = Len(tasks)
        /\ \A i \in 1..Len(tasks) : ReportTrace(ret)[i] = FanEntry(i)

(***************************************************************************)
(* C16, amended. The trace of such a run holds, in task order, one (task   *)
(* name, returned Outcome) entry per task up to and including the first    *)
(* task that returned a failure: N entries when all N tasks succeeded, and *)
(* no entry for the tasks after the first failing one, although they ran.  *)
(***************************************************************************)
C16_TraceUpToFirstFailure ==
    (pc = "done" /\ Matched /\ debug /\ AllReturned) =>
        /\ CarriesTrace(ret, debug)
        /\ Len(ReportTrace(ret)) <= Len(tasks)
        /\ \A i \in 1..Len(ReportTrace(ret)) :
             /\ ReportTrace(ret)[i] = FanEntry(i)
             /\ i < Len(ReportTrace(ret)) => Succeeded(coros[i].out)
        /\ Len(ReportTrace(ret)) < Len(tasks) =>
             /\ Len(ReportTrace(ret)) >= 1
             /\ Failed(coros[Len(ReportTrace(ret))].out)
        /\ AllReturnedOk => Len(ReportTrace(ret)) = Len(tasks)

\* the first task fails: one entry, none for the second task, which ran
C16_Witness ==
    /\ pc = "done"
    /\ Matched
    /\ debug
    /\ Len(tasks) = 2
    /\ Failed(coros[1].out)
    /\ Succeeded(coros[2].out)
    /\ CarriesTrace(ret, debug)
    /\ ReportTrace(ret) = <<FanEntry(1)>>

(***************************************************************************)
(* A whole task call and a whole sequential run, as functions of their     *)
(* arguments: what a worker computes when it runs pipeline.run.            *)
(***************************************************************************)
\* BaseSyncTask.__call__ / BaseAsyncTask.__call__ from attempt a on, after c calls
\* of the computation
RECURSIVE Call(_, _, _, _, _)
Call(task, inp, a, c, last) ==
    IF ~BudgetIsInt(task) THEN Raise("TypeError", BudgetError)
    ELSE IF ~InRange(a, task) THEN Return(Err(Str(ExhaustedMessage(task, last))))
    ELSE IF Raises(task, c + 1)
         THEN Call(task, inp, NextAttempt(a), c + 1, Str(FaultText(c + 1)))
         ELSE IF ReturnsResult(execute(task, inp))
              THEN Return(execute(task, inp))
              ELSE Call(task, inp, NextAttempt(a), c + 1, last)

\* SyncPipeline.run / AsyncPipeline.run_sequence from task i on
RECURSIVE RunFrom(_, _, _, _, _, _, _)
RunFrom(k, ts, inp, d, i, cur, tr) ==
    IF i > Len(ts) THEN Final(k, cur, tr, d)
    ELSE LET c == Call(ts[i], TaskInput(cur, inp), 1, 0, None) IN
         IF c.exc # NoExc THEN Return(OnException(k, ts[i], c))
         ELSE IF is_err(c.val)
              THEN Return(OnErr(AppendTrace(k, tr, ts[i], c.val, d), c.val, d))
              ELSE RunFrom(k, ts, inp, d, i + 1, Current(k, cur, c.val),
                           AppendTrace(k, tr, ts[i], c.val, d))

\* pipeline.run(inp, debug) / pipeline.run_sequence(inp, debug)
RunOutcome(k, p, inp, d) ==
    RunFrom(k, p.tasks, inp, d, 1, inp, InitTrace(k, p.name, inp, d))

(***************************************************************************)
(* The parallel group: SyncPipeline.run_parallel(pipelines, inputs,        *)
(* max_workers, debug).  Each pipeline's run is submitted to a thread pool *)
(* of max_workers threads; the caller handles the futures as they          *)
(* complete, and leaves the pool only when every submitted run is over.    *)
(***************************************************************************)
MaxPipes == 2
MaxWorkers == 2

\* if len(pipelines) != len(inputs)
ParMismatchMore(ps, ins) == Len(ps) < Len(ins)
ParMismatch(ps, ins) == Len(ps) # Len(ins)

\* raise AssertionError("Each pipeline needs a corresponding input Result")
ParMismatchError ==
    Raise("AssertionError", <<"Each pipeline needs a corresponding input Result">>)

\* the named result of one pipeline, and the trace objects of a parallel run
PipelineResult(n, v) ==
    [ty |-> "PipelineResult", v |-> [name |-> Str(<<n>>), result |-> v]]
SinglePipelineTrace(n, tr) ==
    [ty |-> "SinglePipelineTrace", v |-> [name |-> Str(<<n>>), tasks |-> tr]]
PipelineTrace(trs) == [ty |-> "PipelineTrace", v |-> trs]

\* pool.submit(p.run, inp, debug)
Future(inp) == [state |-> "queued", input |-> inp, out |-> Pending]

\* future_to_idx, over enumerate(zip(pipelines, inputs))
SubmitLast(ps, ins) == [i \in 1..Min(Len(ps), Len(ins)) |-> Future(ins[Len(ins)])]
Submit(ps, ins) == [i \in 1..Min(Len(ps), Len(ins)) |-> Future(ins[i])]

\* results = [None] * len(pipelines)
NoResults(ps) == [i \in 1..Len(ps) |-> None]

\* the threads of the pool that are running a submitted call
Busy(fs) == Cardinality({i \in DOMAIN fs : fs[i].state = "running"})

\* a thread of the pool is free to take the next queued call
WorkerFreeAlways(fs, w) == TRUE
WorkerFree(fs, w) == Busy(fs) < w

\* ThreadPoolExecutor.__exit__ is shutdown(wait=True): it returns once every
\* submitted call, the queued ones included, has been run to its end
JoinedAtOnce(fs) == TRUE
Joined(fs) == \A i \in DOMAIN fs : fs[i].state = "done"

\* return Err(f"Exception in pipeline '{pipe.name}': {ex}")
PipelineException(p, e) ==
    Err(Str(<<"Exception in pipeline '", p.name, "'", ": ">> \o Format(e.val)))

\* results[idx] = PipelineResult(name=pipe.name, result=val)
SlotByCompletion(rs, i, k, p, r, d) ==
    [rs EXCEPT ![k] = PipelineResult(p.name, IF d THEN r.value.v[1] ELSE r.value)]
Slot(rs, i, k, p, r, d) ==
    [rs EXCEPT ![i] = PipelineResult(p.name, IF d THEN r.value.v[1] ELSE r.value)]

\* traces.append(SinglePipelineTrace(name=pipe.name, tasks=trace))
ParTrace(trs, p, r, d) ==
    IF d THEN Append(trs, SinglePipelineTrace(p.name, r.value.v[2])) ELSE trs

\* the statement after the with block
ParFinal(rs, trs, d) ==
    IF d THEN Ok(Tuple(<<List(rs), PipelineTrace(trs)>>)) ELSE Ok(List(rs))

Pipe(n, ts) == [name |-> n, tasks |-> ts]

\* the pipelines of the model: two that succeed, one whose last task returns a
\* failure, one whose task lets a fault escape, one without tasks
PipeFixtures ==
    { Pipe("P1", <<T("add_one", Int_(1), 0)>>),
      Pipe("P2", <<T("add_one", Int_(1), 0), T("multiply_two", Int_(1), 0)>>),
      Pipe("PF", <<T("add_one", Int_(MaxRetries), MaxRetries - 1),
                   T("fail_task", Int_(1), 0)>>),
      Pipe("PN", <<T("add_one", None, 0)>>),
      Pipe("PE", <<>>) }

ParInit ==
    /\ kind = "sync"
    /\ method = "run_parallel"
    /\ name = "P1"
    /\ tasks = <<>>
    /\ input_result = None
    /\ debug = FALSE
    /\ pc = "idle"
    /\ idx = 0
    /\ result = None
    /\ trace = <<>>
    /\ attempt = 0
    /\ last_exception = None
    /\ res = None
    /\ raised = Pending
    /\ ret = Pending
    /\ events = <<>>
    /\ slept = <<>>
    /\ log = <<>>
    /\ first = <<>>
    /\ inputs = <<>>
    /\ coros = <<>>
    /\ results = <<>>
    /\ order = <<>>
    /\ pipelines \in SeqsUpTo(PipeFixtures, MaxPipes)
    /\ max_workers = 0
    /\ futures = <<>>
    /\ traces = <<>>
    /\ yielded = {}

\* the caller runs the group: the count test, the pool and the submissions
ParRun(ins, w, d) ==
    /\ pc = "idle"
    /\ inputs' = ins
    /\ max_workers' = w
    /\ debug' = d
    /\ IF ParMismatch(pipelines, ins)
       THEN /\ ret' = ParMismatchError
            /\ pc' = "done"
            /\ UNCHANGED <<results, futures>>
       ELSE /\ results' = NoResults(pipelines)
            /\ futures' = Submit(pipelines, ins)
            /\ pc' = "pool"
            /\ UNCHANGED ret
    /\ UNCHANGED <<seq, coros, raised, order, pipelines, traces, yielded>>

\* a free thread of the pool takes the oldest queued call
WorkerStart(i) ==
    /\ futures[i].state = "queued"
    /\ \A j \in 1..(i - 1) : futures[j].state # "queued"
    /\ WorkerFree(futures, max_workers)
    /\ futures' = [futures EXCEPT ![i].state = "running"]
    /\ UNCHANGED <<seq, inputs, debug, pc, coros, raised, ret, results, order,
                   pipelines, max_workers, traces, yielded>>

\* the thread finishes p.run(inp, debug): the future is done
WorkerFinish(i) ==
    /\ futures[i].state = "running"
    /\ futures' = [futures EXCEPT
           ![i].state = "done",
           ![i].out = RunOutcome(kind, pipelines[i], futures[i].input, debug)]
    /\ order' = Append(order, i)
    /\ UNCHANGED <<seq, inputs, debug, pc, coros, raised, ret, results,
                   pipelines, max_workers, traces, yielded>>

\* one iteration of `for fut in as_completed(future_to_idx)`
Handle(i) ==
    LET out == futures[i].out
        p == pipelines[i] IN
    /\ pc = "pool"
    /\ futures[i].state = "done"
    /\ i \notin yielded
    /\ yielded' = yielded \cup {i}
    /\ IF out.exc # NoExc
       THEN /\ ret' = Return(PipelineException(p, out))
            /\ pc' = "exit"
            /\ UNCHANGED <<results, traces>>
       ELSE IF is_err(out.val)
            THEN /\ ret' = Return(Err(err(out.val)))
                 /\ pc' = "exit"
                 /\ UNCHANGED <<results, traces>>
            ELSE /\ results' = Slot(results, i, Cardinality(yielded) + 1, p,
                                    out.val, debug)
                 /\ traces' = ParTrace(traces, p, out.val, debug)
                 /\ UNCHANGED <<ret, pc>>
    /\ UNCHANGED <<seq, inputs, debug, coros, raised, order, pipelines,
                   max_workers, futures>>

\* as_completed is exhausted: the loop ends and the return value is built
LoopEnd ==
    /\ pc = "pool"
    /\ yielded = DOMAIN futures
    /\ ret' = Return(ParFinal(results, traces, debug))
    /\ pc' = "exit"
    /\ UNCHANGED <<seq, inputs, debug, coros, raised, results, order, par>>

\* leaving the with block joins the pool: every submitted call has run
PoolExit ==
    /\ pc = "exit"
    /\ Joined(futures)
    /\ pc' = "done"
    /\ UNCHANGED <<seq, inputs, debug, coros, raised, ret, results, order, par>>

ParNext ==
    \/ \E ins \in SeqsUpTo(Inputs, MaxPipes), w \in 1..MaxWorkers, d \in BOOLEAN :
          ParRun(ins, w, d)
    \/ \E i \in DOMAIN futures : WorkerStart(i)
    \/ \E i \in DOMAIN futures : WorkerFinish(i)
    \/ \E i \in DOMAIN futures : Handle(i)
    \/ LoopEnd
    \/ PoolExit

ParSpec == ParInit /\ [][ParNext]_vars

(***************************************************************************)
(* AsyncPipeline.run_parallel(pipelines, inputs, debug): the run_sequence  *)
(* coroutines of the pipelines, one per input, joined by gather.           *)
(***************************************************************************)
\* if len(pipelines) != len(inputs)
AParMismatch(ps, ins) == Len(ps) # Len(ins)

\* return Err("Each pipeline must have a corresponding input Result")
AParMismatchResult ==
    Return(Err(Str(<<"Each pipeline must have a corresponding input Result">>)))

\* the coroutine object p.run_sequence(inp, debug), not started yet
SeqCoroutine(inp) == [pc |-> "created", input |-> inp, out |-> Pending]

\* coros = [p.run_sequence(inp, debug) for p, inp in zip(pipelines, inputs)]
SeqCoroutines(ps, ins) == [i \in 1..Min(Len(ps), Len(ins)) |-> SeqCoroutine(ins[i])]

\* for pipeline, res in zip(pipelines, results): ... and the return after it
RECURSIVE AParLoop(_, _, _, _, _, _)
AParLoop(ps, rs, d, i, outputs, combined_trace) ==
    IF i > Min(Len(ps), Len(rs))
    THEN IF d THEN Ok(Tuple(<<List(outputs), List(combined_trace)>>))
         ELSE Ok(List(outputs))
    ELSE IF is_err(rs[i]) THEN rs[i]
    ELSE IF d
         THEN AParLoop(ps, rs, d, i + 1, Append(outputs, rs[i].value.v[1]),
                       combined_trace \o rs[i].value.v[2].v)
         ELSE AParLoop(ps, rs, d, i + 1, Append(outputs, rs[i].value),
                       combined_trace)

AParInit ==
    /\ kind = "async"
    /\ method = "run_parallel"
    /\ name = "P1"
    /\ tasks = <<>>
    /\ input_result = None
    /\ debug = FALSE
    /\ pc = "idle"
    /\ idx = 0
    /\ result = None
    /\ trace = <<>>
    /\ attempt = 0
    /\ last_exception = None
    /\ res = None
    /\ raised = Pending
    /\ ret = Pending
    /\ events = <<>>
    /\ slept = <<>>
    /\ log = <<>>
    /\ first = <<>>
    /\ inputs = <<>>
    /\ coros = <<>>
    /\ results = <<>>
    /\ order = <<>>
    /\ pipelines \in SeqsUpTo(PipeFixtures, MaxPipes)
    /\ max_workers = 0
    /\ futures = <<>>
    /\ traces = <<>>
    /\ yielded = {}

\* the caller runs the group: the count test and the creation of the coroutines
AParRun(ins, d) ==
    /\ pc = "idle"
    /\ inputs' = ins
    /\ debug' = d
    /\ IF AParMismatch(pipelines, ins)
       THEN /\ ret' = AParMismatchResult
            /\ pc' = "done"
            /\ UNCHANGED coros
       ELSE /\ coros' = SeqCoroutines(pipelines, ins)
            /\ pc' = "gather"
            /\ UNCHANGED ret
    /\ UNCHANGED <<seq, raised, results, order, par>>

\* the event loop starts coroutine i, in creation order
SeqStart(i) ==
    /\ coros[i].pc = "created"
    /\ \A j \in 1..(i - 1) : coros[j].pc # "created"
    /\ coros' = [coros EXCEPT ![i].pc = "running"]
    /\ UNCHANGED <<seq, inputs, debug, pc, raised, ret, results, order, par>>

\* p.run_sequence(inp, debug) finishes
SeqFinish(i) ==
    /\ coros[i].pc = "running"
    /\ coros' = [coros EXCEPT
           ![i].pc = "done",
           ![i].out = RunOutcome(kind, pipelines[i], coros[i].input, debug)]
    /\ order' = Append(order, i)
    /\ UNCHANGED <<seq, inputs, debug, pc, raised, ret, results, par>>

\* results = await asyncio.gather(*coros): every coroutine has returned
AParGather ==
    /\ pc = "gather"
    /\ GatherReady(coros)
    /\ \A i \in DOMAIN coros : ~Raised(coros[i])
    /\ results' = GatherResults(coros, order)
    /\ pc' = "collect"
    /\ UNCHANGED <<seq, inputs, debug, coros, raised, ret, order, par>>

\* await asyncio.gather(*coros) raises the first exception of a coroutine
AParGatherRaise ==
    /\ pc = "gather"
    /\ \E i \in DOMAIN coros : Raised(coros[i])
    /\ \A i \in DOMAIN coros : coros[i].pc # "created"
    /\ raised' = FirstRaised(coros, order)
    /\ pc' = "except"
    /\ UNCHANGED <<seq, inputs, debug, coros, ret, results, order, par>>

\* except Exception as e: return Err(str(e))
AParExcept ==
    /\ pc = "except"
    /\ ret' = Return(Err(Str(Format(raised.val))))
    /\ pc' = "done"
    /\ UNCHANGED <<seq, inputs, debug, coros, raised, results, order, par>>

\* the loop over zip(pipelines, results) and the return
AParCollect ==
    /\ pc = "collect"
    /\ ret' = Return(AParLoop(pipelines, results, debug, 1, <<>>, <<>>))
    /\ pc' = "done"
    /\ UNCHANGED <<seq, inputs, debug, coros, raised, results, order, par>>

AParNext ==
    \/ \E ins \in SeqsUpTo(Inputs, MaxPipes), d \in BOOLEAN : AParRun(ins, d)
    \/ \E i \in DOMAIN coros : SeqStart(i)
    \/ \E i \in DOMAIN coros : SeqFinish(i)
    \/ AParGather
    \/ AParGatherRaise
    \/ AParExcept
    \/ AParCollect

AParSpec == AParInit /\ [][AParNext]_vars

(***************************************************************************)
(* Vocabulary of the parallel-group properties.                            *)
(***************************************************************************)
\* the group was given one input per pipeline
ParMatched == Len(pipelines) = Len(inputs)

(***************************************************************************)
(* C17. Parallel group count mismatch: SyncPipeline.run_parallel called    *)
(* with len(pipelines) # len(inputs) raises AssertionError instead of      *)
(* returning an Outcome, before any pipeline run is submitted or started.  *)
(***************************************************************************)
C17_ParMismatchRaises ==
    (pc # "idle" /\ ~ParMatched) =>
        /\ pc = "done"
        /\ IsRaise(ret)
        /\ ret.exc = "AssertionError"
        /\ futures = <<>>
        /\ order = <<>>

\* fewer inputs than pipelines
C17_Witness ==
    /\ pc = "done"
    /\ Len(pipelines) = MaxPipes
    /\ Len(inputs) = MaxPipes - 1
    /\ ret.exc = "AssertionError"
    /\ futures = <<>>

(***************************************************************************)
(* C18. AsyncPipeline.run_parallel called with a number of inputs          *)
(* different from the number of pipelines raises AssertionError: it does   *)
(* not return an Outcome.                                                  *)
(***************************************************************************)
C18_AParMismatchRaises ==
    (pc = "done" /\ ~ParMatched) => (IsRaise(ret) /\ ret.exc = "AssertionError")

(***************************************************************************)
(* C19. Parallel group ordering: when every pipeline succeeds, the result  *)
(* of SyncPipeline.run_parallel has exactly one entry per pipeline, entry  *)
(* i carrying the name of pipeline i and the final value of pipeline i run *)
(* on input i, in registration order, whatever the order in which the      *)
(* workers completed.                                                      *)
(***************************************************************************)
\* what pipeline i returns when run alone on input i
Alone(i) == RunOutcome("sync", pipelines[i], inputs[i], FALSE)

AllPipelinesSucceed == \A i \in 1..Len(pipelines) : Succeeded(Alone(i))

\* the result list of a returned parallel run: Ok(results) or Ok((results, traces))
ParResults(c, d) == IF d THEN c.val.value.v[1].v ELSE c.val.value.v

ParBudgetsValid ==
    \A i \in 1..Len(pipelines) : \A j \in 1..Len(pipelines[i].tasks) :
        /\ BudgetIsInt(pipelines[i].tasks[j])
        /\ pipelines[i].tasks[j].retries.v >= 1

\* the run returned success carrying a result list
ListsResults(c, d) ==
    /\ Succeeded(c)
    /\ IF d THEN c.val.value.ty = "tuple" /\ c.val.value.v[1].ty = "list"
       ELSE c.val.value.ty = "list"

\* slot x holds Outcome r: the Outcome's payload, under any name
HoldsOutcome(x, r) == x.ty = "PipelineResult" /\ x.v.result = r.value

C20_OneOutcomePerPipeline ==
    (/\ pc = "done" /\ ParMatched /\ ParBudgetsValid
     /\ \A i \in 1..Len(pipelines) : IsReturn(Alone(i))
     /\ \E i \in 1..Len(pipelines) : Failed(Alone(i))) =>
        /\ ListsResults(ret, debug)
        /\ Len(ParResults(ret, debug)) = Len(pipelines)
        /\ \A i \in 1..Len(pipelines) :
             HoldsOutcome(ParResults(ret, debug)[i], Alone(i).val)

(***************************************************************************)
(* C21. Fault capture in the parallel group: if one pipeline's run raises  *)
(* a fault, SyncPipeline.run_parallel does not raise; the slot of that     *)
(* pipeline holds a failure that names the pipeline and contains the fault *)
(* text, and the slots of the other pipelines hold their own Outcomes.     *)
(***************************************************************************)
\* the run submitted for pipeline i ended by raising
RunRaised(i) == futures[i].state = "done" /\ IsRaise(futures[i].out)

\* slot x holds a failure naming pipeline p and carrying the text of fault e
HoldsFault(x, p, e) ==
    /\ x.ty = "PipelineResult"
    /\ x.v.result.ty = "str"
    /\ Contains(x.v.result.v, <<p.name>>)
    /\ Contains(x.v.result.v, e.val.v)

C21_FaultCapturedInSlot ==
    (pc = "done" /\ ParMatched /\ \E i \in 1..Len(pipelines) : RunRaised(i)) =>
        /\ IsReturn(ret)
        /\ ListsResults(ret, debug)
        /\ Len(ParResults(ret, debug)) = Len(pipelines)
        /\ \A i \in 1..Len(pipelines) :
             IF RunRaised(i)
             THEN HoldsFault(ParResults(ret, debug)[i], pipelines[i], futures[i].out)
             ELSE HoldsOutcome(ParResults(ret, debug)[i], Alone(i).val)

(***************************************************************************)
(* C22. Parallel group debug traces: SyncPipeline.run_parallel with        *)
(* debug=True returns exactly one Trace per pipeline, the i-th Trace being *)
(* that of the i-th pipeline whatever the order in which the workers       *)
(* completed, with the steps of that pipeline's run up to the last task it *)
(* invoked, a failing one included; the slot of a failed pipeline holds    *)
(* its failure (stated for pipelines whose tasks have valid budgets).      *)
(***************************************************************************)
\* what pipeline i returns when run alone on input i with debug=True
AloneDebug(i) == RunOutcome("sync", pipelines[i], inputs[i], TRUE)

\* the per-pipeline traces of a returned parallel debug run
ParTraces(c) == c.val.value.v[2].v

C22_OneTracePerPipeline ==
    (/\ pc = "done" /\ ParMatched /\ debug /\ ParBudgetsValid
     /\ \A i \in 1..Len(pipelines) : CarriesTrace(AloneDebug(i), TRUE)) =>
        /\ ListsResults(ret, debug)
        /\ Len(ParTraces(ret)) = Len(pipelines)
        /\ \A i \in 1..Len(pipelines) :
             /\ ParTraces(ret)[i].v.name = Str(<<pipelines[i].name>>)
             /\ ParTraces(ret)[i].v.tasks = AloneDebug(i).val.value.v[2]
             /\ Failed(Alone(i)) =>
                  HoldsOutcome(ParResults(ret, debug)[i], Alone(i).val)

(***************************************************************************)
(* C23. Bounded concurrency: during SyncPipeline.run_parallel, in every    *)
(* reachable state at most max_workers pipeline runs are executing at the  *)
(* same time, whatever the number of pipelines.                            *)
(***************************************************************************)
C23_BoundedConcurrency ==
    (pc \in {"pool", "exit", "done"} /\ ParMatched) => Busy(futures) <= max_workers

\* the pool is full while a submitted run is still waiting for a thread
C23_Witness ==
    /\ pc = "pool"
    /\ ParMatched
    /\ Len(pipelines) > max_workers
    /\ Busy(futures) = max_workers
    /\ \E i \in DOMAIN futures : futures[i].state = "queued"

(***************************************************************************)
(* C24. Join barrier without cancellation: SyncPipeline.run_parallel       *)
(* returns to its caller only after every submitted pipeline run has been  *)
(* executed to its end, returning or raising; this also holds when it      *)
(* returns a failure because a pipeline handled earlier failed or raised:  *)
(* no sibling run is cancelled, skipped or left running.                   *)
(***************************************************************************)
C24_JoinBarrier ==
    (pc = "done" /\ ParMatched) =>
        /\ Len(futures) = Len(pipelines)
        /\ \A i \in DOMAIN futures :
             /\ futures[i].state = "done"
             /\ futures[i].out = RunOutcome("sync", pipelines[i], inputs[i], debug)
        /\ Len(order) = Len(pipelines)

\* the call returned a failure before the loop had seen every run, and the
\* run it had not seen has nevertheless been executed to its end
C24_Witness ==
    /\ pc = "done"
    /\ ParMatched
    /\ Failed(ret)
    /\ \E i \in DOMAIN futures :
         /\ i \notin yielded
         /\ futures[i].state = "done"
         /\ futures[i].out # Pending

(***************************************************************************)
(* add_task(task): the registration of a task with a pipeline.  A          *)
(* candidate is described by what the validation looks at: the base class  *)
(* of the object, the annotations of the parameters of its execute method  *)
(* (as inspect.signature of the bound method gives them, without self),    *)
(* and, for a function-backed task, those of the wrapped function.         *)
(***************************************************************************)
Candidate(n, b, k, e, f) ==
    [type |-> n, base |-> b, backing |-> k, execute |-> e, func |-> f]

\* FunctionSyncTask(func) / FunctionAsyncTask(func): execute is the fixed
\* wrapper execute(self, input_result: Result[T, E]) around self.func
FunctionTask(n, b, f) == Candidate(n, b, "function", <<"Result[T, E]">>, f)

\* a subclass of ClassSyncTask / ClassAsyncTask with its own execute
ClassTask(n, b, e) == Candidate(n, b, "class", e, <<>>)

\* isinstance(task, BaseSyncTask) / isinstance(task, BaseAsyncTask)
IsInstance(task, k) == task.base = k

\* inspect.signature(task.execute), the parameters not named self
Signature(task) == task.execute

\* get_origin(param.annotation) / getattr(param.annotation, '__origin__', None)
get_origin(a) == IF a = "Result[T, E]" THEN "Result" ELSE "None"

\* SyncPipeline.add_task: the checks before the append
SyncChecks(task) ==
    IF ~IsInstance(task, "sync")
    THEN Raise("TypeError",
               <<"Only BaseSyncTask instances can be added. Got ", task.type>>)
    ELSE IF Len(Signature(task)) < 1
    THEN Raise("TypeError",
               <<"Task '", task.type,
                 "' must define an 'execute(self, input_result: Result)' method with at least one input parameter.">>)
    ELSE IF get_origin(Signature(task)[1]) # "Result"
    THEN Raise("TypeError",
               <<"Task '", task.type,
                 "' first argument must be of type Result[T, E]. Found: ",
                 Signature(task)[1]>>)
    ELSE Return(None)

\* AsyncPipeline._validate_task
validate_task(task) ==
    IF ~IsInstance(task, "async")
    THEN Raise("TypeError",
               <<"Only BaseAsyncTask instances allowed, got ", task.type>>)
    ELSE IF Len(Signature(task)) # 1
    THEN Raise("TypeError",
               <<"Task '", task.type,
                 "' must have exactly one input parameter: Result[T, E]">>)
    ELSE IF get_origin(Signature(task)[1]) # "Result"
    THEN Raise("TypeError",
               <<"Task '", task.type,
                 "' first arg must be Result[T, E], found ", Signature(task)[1]>>)
    ELSE Return(None)

Validate(k, task) == IF k = "sync" THEN SyncChecks(task) ELSE validate_task(task)

\* self.tasks.append(task), reached only when no check raised
RegisteredAnyway(ts, task, v) == Append(ts, task)
Registered(ts, task, v) == IF v.exc = NoExc THEN Append(ts, task) ELSE ts

\* the objects handed to add_task
Candidates ==
    { Candidate("object", "object", "none", <<>>, <<>>),
      FunctionTask("f0", "sync", <<>>),
      FunctionTask("f1", "sync", <<"Result[T, E]">>),
      FunctionTask("f2", "sync", <<"Result[T, E]", "int">>),
      ClassTask("S0", "sync", <<>>),
      ClassTask("S1", "sync", <<"Result[T, E]">>),
      ClassTask("S1bare", "sync", <<"Result">>),
      ClassTask("S1int", "sync", <<"int">>),
      ClassTask("S2", "sync", <<"Result[T, E]", "int">>),
      FunctionTask("a0", "async", <<>>),
      FunctionTask("a1", "async", <<"Result[T, E]">>),
      ClassTask("NoParamTask", "async", <<>>),
      ClassTask("ValidClassTask", "async", <<"Result[T, E]">>),
      ClassTask("WrongTypeTask", "async", <<"int">>),
      ClassTask("A2", "async", <<"Result[T, E]", "empty">>) }

\* a new pipeline of either flavour: no task, no call made yet
RegInit ==
    /\ kind \in {"sync", "async"}
    /\ method = "add_task"
    /\ name = "P1"
    /\ tasks = <<>>
    /\ input_result = None
    /\ debug = FALSE
    /\ pc = "idle"
    /\ idx = 0
    /\ result = None
    /\ trace = <<>>
    /\ attempt = 0
    /\ last_exception = None
    /\ res = None
    /\ raised = Pending
    /\ ret = Pending
    /\ events = <<>>
    /\ slept = <<>>
    /\ log = <<>>
    /\ first = <<>>
    /\ inputs = <<>>
    /\ coros = <<>>
    /\ results = <<>>
    /\ order = <<>>
    /\ pipelines = <<>>
    /\ max_workers = 0
    /\ futures = <<>>
    /\ traces = <<>>
    /\ yielded = {}

\* pipeline.add_task(task): inputs and results record the calls made and
\* how each ended; ret is how the last one ended
AddTask(task) ==
    LET v == Validate(kind, task) IN
    /\ pc = "idle"
    /\ Len(inputs) < MaxTasks
    /\ inputs' = Append(inputs, task)
    /\ results' = Append(results, v)
    /\ ret' = v
    /\ tasks' = Registered(tasks, task, v)
    /\ UNCHANGED <<kind, method, name, input_result, debug, pc, idx, result, trace,
                   attempt, last_exception, res, raised, events, slept, log,
                   first, coros, order, par>>

RegNext == \E task \in Candidates : AddTask(task)

RegSpec == RegInit /\ [][RegNext]_vars

(***************************************************************************)
(* C25. Fail-fast registration: add_task on an object that is not a task,  *)
(* on a task whose execute takes no input parameter, or on a task whose    *)
(* input parameter is not declared as the Result type raises TypeError at  *)
(* attach time, invokes no computation and leaves the pipeline's task list *)
(* exactly as it was; a valid task is appended at the end of the list.     *)
(***************************************************************************)
NotATask(t) == t.base # kind
NoInput(t) == t.base = kind /\ Len(t.execute) = 0
NotOutcome(t) ==
    t.base = kind /\ Len(t.execute) >= 1 /\ t.execute[1] \notin {"Result[T, E]", "Result"}
ValidTask(t) == t.base = kind /\ t.execute = <<"Result[T, E]">>

\* the calls that returned, in the order in which they were made
RECURSIVE Kept(_, _)
Kept(ins, rs) ==
    IF ins = <<>> THEN <<>>
    ELSE LET n == Len(ins)
             k == Kept(SubSeq(ins, 1, n - 1), SubSeq(rs, 1, n - 1)) IN
         IF IsReturn(rs[n]) THEN Append(k, ins[n]) ELSE k

Wrapped(t) == IF t.backing = "function" THEN t.func ELSE t.execute

C26_ExactArity ==
    \A i \in DOMAIN tasks :
        /\ Len(Wrapped(tasks[i])) = 1
        /\ Wrapped(tasks[i])[1] \in {"Result[T, E]", "Result"}

(***************************************************************************)
(* C27. AsyncPipeline.run_parallel with debug=True never reports a         *)
(* pipeline failure as an error: it returns Ok((outputs, trace)) where     *)
(* outputs has one entry per pipeline in pipeline order, outputs[i] being  *)
(* pipeline i's final value, or None if pipeline i failed, and trace       *)
(* contains the (task name, Outcome) entry of every task that was invoked, *)
(* the failing task's failure Outcome included (stated for tasks with      *)
(* valid budgets).                                                         *)
(***************************************************************************)
\* what run_sequence of pipeline i gives on input i, without and with debug
SeqAlone(i) == RunOutcome("async", pipelines[i], inputs[i], FALSE)
SeqAloneDebug(i) == RunOutcome("async", pipelines[i], inputs[i], TRUE)

\* the entries of a sequence
Range(s) == {s[k] : k \in DOMAIN s}

C27_DebugNeverReportsError ==
    (pc = "done" /\ ParMatched /\ debug /\ ParBudgetsValid) =>
        /\ ListsOutputs(ret, TRUE)
        /\ Len(Outputs(ret, TRUE)) = Len(pipelines)
        /\ ret.val.value.v[2].ty = "list"
        /\ \A i \in 1..Len(pipelines) :
             /\ Outputs(ret, TRUE)[i] =
                    IF Succeeded(SeqAlone(i)) THEN SeqAlone(i).val.value ELSE None
             /\ CarriesTrace(SeqAloneDebug(i), TRUE) =>
                    Range(SeqAloneDebug(i).val.value.v[2].v) \subseteq
                        Range(ret.val.value.v[2].v)

(***************************************************************************)
(* result.py: the operations of Result, applied one after another to an    *)
(* Outcome built by Ok or Err.  A function handed to an operation is a     *)
(* call that returns or raises.                                            *)
(***************************************************************************)
MaxOps == 3
MaxPayload == 1

Bool_(b) == [ty |-> "bool", v |-> b]

OkPayloadAlways(self) == self.value
ok(self) == IF self.is_ok THEN self.value ELSE None

\* lambda x: x, lambda x: x + 5, lambda e: f"error: {e}"
MapOps == {"identity", "add_five", "describe"}

Apply(op, x) ==
    IF op = "identity" THEN Return(x)
    ELSE IF op = "add_five"
    THEN IF x.ty = "int" THEN Return(Int_(x.v + 5))
         ELSE IF x.ty = "str"
         THEN Raise("TypeError", <<"can only concatenate str (not ", "int", ") to str">>)
         ELSE Raise("TypeError",
                    <<"unsupported operand type(s) for +: 'NoneType' and 'int'">>)
    ELSE Return(Str(<<"error: ">> \o Format(x)))

\* the functions handed to and_then return a Result
ChainOps == {"checked_add", "reject"}

Chain(op, x) ==
    IF op = "checked_add"
    THEN LET c == Apply("add_five", x) IN
         IF c.exc = NoExc THEN Return(Ok(c.val)) ELSE c
    ELSE Return(Err(Str(<<"rejected">>)))

\* the calls of the function an operation makes: one, on the payload, when
\* the Outcome is of the variant the operation works on
Called(self, op, variant) ==
    IF self.is_ok = variant THEN <<Tuple(<<Str(<<op>>), self.value>>)>> ELSE <<>>

MapAlways(self, op) ==
    LET c == Apply(op, self.value) IN
    IF c.exc = NoExc THEN Return(Ok(c.val)) ELSE c
map(self, op) ==
    IF self.is_ok
    THEN LET c == Apply(op, self.value) IN
         IF c.exc = NoExc THEN Return(Ok(c.val)) ELSE c
    ELSE Return(Err(self.value))

map_err(self, op) ==
    IF self.is_ok
    THEN Return(Ok(self.value))
    ELSE LET c == Apply(op, self.value) IN
         IF c.exc = NoExc THEN Return(Err(c.val)) ELSE c

and_then(self, op) ==
    IF self.is_ok THEN Chain(op, self.value) ELSE Return(Err(self.value))

ExpectMessageOnly(self, msg) ==
    IF self.is_ok THEN Return(self.value) ELSE Raise("UnwrapError", <<msg>>)
expect(self, msg) ==
    IF self.is_ok THEN Return(self.value)
    ELSE Raise("UnwrapError", <<msg, ": ">> \o Format(self.value))

Payloads == {Int_(n) : n \in 0..MaxPayload} \cup {Str(<<"boom">>), None}
Outcomes == {Ok(x) : x \in Payloads} \cup {Err(x) : x \in Payloads}
Messages == {"expected it to work"}

\* an Outcome has been built by Ok(payload) or Err(payload)
ResInit ==
    /\ kind = "result"
    /\ method = "none"
    /\ name = "P1"
    /\ tasks = <<>>
    /\ input_result = None
    /\ debug = FALSE
    /\ pc = "idle"
    /\ idx = 0
    /\ result \in Outcomes
    /\ trace = <<>>
    /\ attempt = 0
    /\ last_exception = None
    /\ res = None
    /\ raised = Pending
    /\ ret = Pending
    /\ events = <<>>
    /\ slept = <<>>
    /\ log = <<>>
    /\ first = <<>>
    /\ inputs = <<>>
    /\ coros = <<>>
    /\ results = <<>>
    /\ order = <<>>
    /\ pipelines = <<>>
    /\ max_workers = 0
    /\ futures = <<>>
    /\ traces = <<>>
    /\ yielded = {}

\* one operation on the current Outcome: `log` names it, `input_result` is
\* the Outcome it was called on, `ret` how it ended, `events` the calls of
\* the function it made; an operation that returned an Outcome makes it the
\* current one
Operation(op, c, calls, chained) ==
    /\ idx < MaxOps
    /\ idx' = idx + 1
    /\ log' = op
    /\ input_result' = result
    /\ ret' = c
    /\ events' = calls
    /\ result' = IF chained /\ c.exc = NoExc THEN c.val ELSE result
    /\ UNCHANGED <<kind, method, name, tasks, debug, pc, trace, attempt, last_exception,
                   res, raised, slept, first, conc>>

DoMap(op) ==
    Operation(<<"map", op>>, map(result, op), Called(result, op, TRUE), TRUE)

DoMapErr(op) ==
    Operation(<<"map_err", op>>, map_err(result, op), Called(result, op, FALSE), TRUE)

DoAndThen(op) ==
    Operation(<<"and_then", op>>, and_then(result, op), Called(result, op, TRUE), TRUE)

DoUnwrap == Operation(<<"unwrap">>, unwrap(result), <<>>, FALSE)

DoExpect(msg) == Operation(<<"expect", msg>>, expect(result, msg), <<>>, FALSE)

\* is_ok(), is_err(), ok() and err() of the current Outcome
Inspect ==
    Operation(<<"inspect">>,
              Return(Tuple(<<Bool_(is_ok(result)), Bool_(is_err(result)),
                             ok(result), err(result)>>)),
              <<>>, FALSE)

ResNext ==
    \/ \E op \in MapOps : DoMap(op)
    \/ \E op \in MapOps : DoMapErr(op)
    \/ \E op \in ChainOps : DoAndThen(op)
    \/ DoUnwrap
    \/ \E msg \in Messages : DoExpect(msg)
    \/ Inspect

ResSpec == ResInit /\ [][ResNext]_vars

\* the last operation, and whether it was called on a success
Last(op) == log # <<>> /\ log[1] = op
OnSuccess == input_result.is_ok
Payload == input_result.value

(***************************************************************************)
(* C28. Outcome variant invariant: every Outcome built by Ok/Err or        *)
(* returned by map, map_err or and_then reports exactly one of is_ok and   *)
(* is_err as true, and ok() returns the payload only for a success (None   *)
(* for a failure) while err() returns the payload only for a failure (None *)
(* for a success).                                                         *)
(***************************************************************************)
C28_VariantInvariant ==
    /\ is_ok(result) # is_err(result)
    /\ is_ok(result) => ok(result) = result.value /\ err(result) = None
    /\ is_err(result) => err(result) = result.value /\ ok(result) = None
    /\ Last("inspect") =>
         ret = Return(Tuple(<<Bool_(OnSuccess), Bool_(~OnSuccess),
                              IF OnSuccess THEN Payload ELSE None,
                              IF OnSuccess THEN None ELSE Payload>>))

\* and_then has turned a success into a failure, which was then inspected
C28_Witness ==
    /\ Last("inspect")
    /\ is_err(result)
    /\ result.value = Str(<<"rejected">>)
    /\ ret.val.v[3] = None
    /\ ret.val.v[4] = Str(<<"rejected">>)

(***************************************************************************)
(* C29. Round-trip idempotence: for every Outcome r, success or failure    *)
(* with any payload of a bounded set, r.map(identity) is structurally      *)
(* equal to r; map on a failure returns a failure with the same payload    *)
(* without calling the function.                                           *)
(***************************************************************************)
C29_MapIdentity ==
    Last("map") =>
        /\ log[2] = "identity" => ret = Return(input_result) /\ result = input_result
        /\ ~OnSuccess =>
             /\ ret = Return(Err(Payload))
             /\ result = input_result
             /\ events = <<>>

\* map with a function other than the identity has been called on a failure
C29_Witness ==
    /\ Last("map")
    /\ log[2] = "add_five"
    /\ ~OnSuccess
    /\ Payload = Int_(MaxPayload)
    /\ result = Err(Int_(MaxPayload))

(***************************************************************************)
(* C30. Unwrap contract: unwrap() and expect(msg) on a success Outcome     *)
(* return its payload; on a failure Outcome both raise UnwrapError whose   *)
(* message carries the error payload (and, for expect, the caller's        *)
(* message), and they never return a value.                                *)
(***************************************************************************)
C30_UnwrapContract ==
    (Last("unwrap") \/ Last("expect")) =>
        IF OnSuccess
        THEN ret = Return(Payload)
        ELSE /\ ret.exc = "UnwrapError"
             /\ Contains(ret.val.v, Format(Payload))
             /\ Last("expect") => Contains(ret.val.v, <<log[2]>>)

\* expect has been called on a failure that map_err had rewritten
C30_Witness ==
    /\ Last("expect")
    /\ ~OnSuccess
    /\ Payload = Str(<<"error: ", "boom">>)
    /\ ret = Raise("UnwrapError", <<"expected it to work", ": ", "error: ", "boom">>)

(***************************************************************************)
(* result.py: ExecutionResult, the report of a run: `result` is one        *)
(* Outcome or a list of Outcomes.                                          *)
(***************************************************************************)
MaxList == 2

\* isinstance(self.result, list)
IsList(r) == "ty" \in DOMAIN r

\* ExecutionResult.is_ok
report_is_ok(r) ==
    IF IsList(r) THEN \A k \in DOMAIN r.v : is_ok(r.v[k]) ELSE is_ok(r)

\* ExecutionResult.is_err
report_is_err_all(r) ==
    IF IsList(r) THEN \A k \in DOMAIN r.v : is_err(r.v[k]) ELSE is_err(r)
report_is_err(r) ==
    IF IsList(r) THEN \E k \in DOMAIN r.v : is_err(r.v[k]) ELSE is_err(r)

\* ExecutionResult.value: [r.unwrap() for r in self.result] stops at the
\* first unwrap that raises
report_value(r) ==
    IF IsList(r)
    THEN LET bad == {k \in DOMAIN r.v : ~is_ok(r.v[k])} IN
         IF bad = {}
         THEN Return(List([k \in DOMAIN r.v |-> r.v[k].value]))
         ELSE unwrap(r.v[CHOOSE k \in bad : \A j \in bad : k <= j])
    ELSE unwrap(r)

\* ExecutionResult.__len__
report_len(r) == IF IsList(r) THEN Len(r.v) ELSE 1

\* ExecutionResult(result=..., trace=None, execution_time=...)
Reports == Outcomes \cup {List(s) : s \in SeqsUpTo(Outcomes, MaxList)}

ExecInit ==
    /\ kind = "report"
    /\ method = "none"
    /\ name = "P1"
    /\ tasks = <<>>
    /\ input_result = None
    /\ debug = FALSE
    /\ pc = "idle"
    /\ idx = 0
    /\ result \in Reports
    /\ trace = <<>>
    /\ attempt = 0
    /\ last_exception = None
    /\ res = None
    /\ raised = Pending
    /\ ret = Pending
    /\ events = <<>>
    /\ slept = <<>>
    /\ log = <<>>
    /\ first = <<>>
    /\ inputs = <<>>
    /\ coros = <<>>
    /\ results = <<>>
    /\ order = <<>>
    /\ pipelines = <<>>
    /\ max_workers = 0
    /\ futures = <<>>
    /\ traces = <<>>
    /\ yielded = {}

ReportIsOk ==
    Operation(<<"is_ok">>, Return(Bool_(report_is_ok(result))), <<>>, FALSE)

ReportIsErr ==
    Operation(<<"is_err">>, Return(Bool_(report_is_err(result))), <<>>, FALSE)

ReportValue == Operation(<<"value">>, report_value(result), <<>>, FALSE)

ReportLen == Operation(<<"len">>, Return(Int_(report_len(result))), <<>>, FALSE)

ExecNext ==
    \/ ReportIsOk
    \/ ReportIsErr
    \/ ReportValue
    \/ ReportLen

ExecSpec == ExecInit /\ [][ExecNext]_vars

\* the Outcomes a report holds, in order
Held(r) == IF IsList(r) THEN r.v ELSE <<r>>
AllSucceed(r) == \A k \in DOMAIN Held(r) : Held(r)[k].is_ok

(***************************************************************************)
(* C31. ExecutionResult aggregate status: is_ok() is true iff every        *)
(* Outcome of the report is a success and is_err() iff at least one is a   *)
(* failure, so exactly one of them is true for every report (one Outcome   *)
(* or a list, the empty list included); value() returns the payloads in    *)
(* list order when is_ok() and raises when is_err(); len() is the number   *)
(* of Outcomes (1 for a single Outcome).                                   *)
(***************************************************************************)
C31_AggregateStatus ==
    /\ report_is_ok(result) # report_is_err(result)
    /\ Last("is_ok") => ret = Return(Bool_(AllSucceed(result)))
    /\ Last("is_err") => ret = Return(Bool_(~AllSucceed(result)))
    /\ Last("len") => ret = Return(Int_(Len(Held(result))))
    /\ Last("value") =>
         IF AllSucceed(result)
         THEN /\ IsReturn(ret)
              /\ IF IsList(result)
                 THEN /\ ret.val.ty = "list"
                      /\ Len(ret.val.v) = Len(result.v)
                      /\ \A k \in DOMAIN result.v : ret.val.v[k] = result.v[k].value
                 ELSE ret.val = result.value
         ELSE ret.exc = "UnwrapError"

\* value() has been called on a list holding a success followed by a failure
C31_Witness ==
    /\ Last("value")
    /\ IsList(result)
    /\ Len(result.v) = MaxList
    /\ result.v[1].is_ok
    /\ ~result.v[MaxList].is_ok
    /\ ret.exc = "UnwrapError"
    /\ report_is_err(result)
    /\ ~report_is_ok(result)

(***************************************************************************)
(* C32. Exponential backoff: when the computation raises on attempt a      *)
(* (1-based) the task sleeps exactly 2^(a-1) time units before attempt     *)
(* a+1 (1, 2, 4, ...); no sleep precedes the first attempt and no sleep    *)
(* follows an attempt that returns normally.                               *)
(***************************************************************************)
\* ev: how the calls of the computation ended, in attempt order; sl: the sleeps
SleepsFollowRaises(ev, sl) ==
    /\ Len(sl) = Cardinality({a \in DOMAIN ev : IsRaise(ev[a])})
    /\ \A a \in DOMAIN ev :
         /\ IsRaise(ev[a]) => a \in DOMAIN sl /\ sl[a] = 2 ^ (a - 1)
         /\ IsReturn(ev[a]) => a = Len(ev) /\ Len(sl) = a - 1
    /\ ev = <<>> => sl = <<>>

C32_ExponentialBackoff ==
    /\ SleepsFollowRaises(events, slept)
    /\ \A k \in DOMAIN log : SleepsFollowRaises(log[k].events, log[k].slept)

\* a task raised on every attempt but its last, which returned
C32_Witness ==
    \E k \in DOMAIN log :
        /\ Len(log[k].events) = MaxRetries
        /\ \A a \in 1..(MaxRetries - 1) : IsRaise(log[k].events[a])
        /\ IsReturn(log[k].events[MaxRetries])
        /\ Len(log[k].slept) = MaxRetries - 1
        /\ log[k].slept[MaxRetries - 1] = 2 ^ (MaxRetries - 2)

(***************************************************************************)
(* C38. Backoff also follows the final attempt: when all n attempts of a   *)
(* task raise, the task sleeps 2^(a-1) units after every attempt a = 1..n, *)
(* the last one included, before returning the failure Outcome, so the     *)
(* total backoff of an exhausted task is 2^n - 1 time units (a task with   *)
(* retries = 1 that raises still sleeps 1 unit).                           *)
(***************************************************************************)
RECURSIVE Sum(_)
Sum(s) == IF s = <<>> THEN 0 ELSE s[Len(s)] + Sum(SubSeq(s, 1, Len(s) - 1))

\* every attempt of the logged invocation raised
AllRaised(e) ==
    /\ BudgetIsInt(TaskOf(e))
    /\ Budget(e) >= 1
    /\ Len(e.events) = Budget(e)
    /\ \A a \in DOMAIN e.events : IsRaise(e.events[a])

C38_BackoffAfterFinalAttempt ==
    \A k \in DOMAIN log :
        AllRaised(log[k]) =>
            /\ Failed(log[k].out)
            /\ Len(log[k].slept) = Budget(log[k])
            /\ \A a \in 1..Budget(log[k]) : log[k].slept[a] = 2 ^ (a - 1)
            /\ Sum(log[k].slept) = 2 ^ Budget(log[k]) - 1

\* a task with the largest budget has raised on every attempt and returned
C38_Witness ==
    \E k \in DOMAIN log :
        /\ AllRaised(log[k])
        /\ Budget(log[k]) = MaxRetries
        /\ Failed(log[k].out)
        /\ Sum(log[k].slept) = 2 ^ MaxRetries - 1

(***************************************************************************)
(* SyncPipeline.run_parallel called a second time by the same caller with  *)
(* the same pipelines, inputs, max_workers and debug: `first` keeps the    *)
(* report of the first call.                                               *)
(***************************************************************************)
ParRunAgain ==
    /\ pc = "done"
    /\ first = <<>>
    /\ first' = <<ret>>
    /\ order' = <<>>
    /\ traces' = <<>>
    /\ yielded' = {}
    /\ IF ParMismatch(pipelines, inputs)
       THEN /\ ret' = ParMismatchError
            /\ pc' = "done"
            /\ UNCHANGED <<results, futures>>
       ELSE /\ results' = NoResults(pipelines)
            /\ futures' = Submit(pipelines, inputs)
            /\ ret' = Pending
            /\ pc' = "pool"
    /\ UNCHANGED <<kind, method, name, tasks, input_result, debug, idx, result, trace,
                   attempt, last_exception, res, raised, events, slept, log,
                   inputs, coros, pipelines, max_workers>>

TwiceNext ==
    \/ \E ins \in SeqsUpTo(Inputs, MaxPipes), w \in 1..MaxWorkers, d \in BOOLEAN :
          ParRun(ins, w, d)
    \/ \E i \in DOMAIN futures : WorkerStart(i)
    \/ \E i \in DOMAIN futures : WorkerFinish(i)
    \/ \E i \in DOMAIN futures : Handle(i)
    \/ LoopEnd
    \/ PoolExit
    \/ ParRunAgain

TwiceSpec == ParInit /\ [][TwiceNext]_vars

(***************************************************************************)
(* C33. Determinism of the parallel group: the report returned by          *)
(* SyncPipeline.run_parallel (result entries, reported error and trace     *)
(* order) is a function of the pipelines and inputs only: two executions   *)
(* with the same pipelines and inputs return equal reports whatever the    *)
(* order in which the workers complete, also when two or more pipelines    *)
(* fail.                                                                   *)
(***************************************************************************)
C33_ParallelDeterminism ==
    (pc = "done" /\ first # <<>> /\ ParMatched /\ ParBudgetsValid) => ret = first[1]

(***************************************************************************)
(* C34. The debug flag never changes which tasks run: for every sequential *)
(* pipeline and input, the sequence of task invocations (which tasks, in   *)
(* which order, on which input Outcomes) of a run with debug=True is that  *)
(* of the run with debug=False; in particular no task after a failing step *)
(* is invoked to complete a trace.                                         *)
(***************************************************************************)
\* which tasks a run invoked, in order, and on what
Invocations(l) == [k \in DOMAIN l |-> <<l[k].task, l[k].input>>]

C34_DebugKeepsInvocations ==
    (pc = "done" /\ first # <<>>) =>
        /\ first[1].debug # debug
        /\ Invocations(log) = Invocations(first[1].log)
        /\ \A k \in DOMAIN log :
             (IsRaise(log[k].out) \/ is_err(log[k].out.val)) => k = Len(log)

\* both runs stopped at a failing task that was not the pipeline's last
C34_Witness ==
    /\ pc = "done"
    /\ first # <<>>
    /\ debug
    /\ Len(tasks) = MaxTasks
    /\ Len(log) = MaxTasks - 1
    /\ Failed(log[MaxTasks - 1].out)
    /\ Len(first[1].log) = MaxTasks - 1

(***************************************************************************)
(* The life of one pipeline object: tasks are attached to it with          *)
(* add_task, and between two attachments its caller runs it, one call at a *)
(* time: run / run_sequence, the fan-out run of an AsyncPipeline, or       *)
(* run_parallel on a list that holds the pipeline at every position.       *)
(***************************************************************************)
\* a task that succeeds, one that exhausts its budget, one whose call raises
LifeTasks ==
    { T("add_one", Int_(1), 0),
      T("multiply_two", Int_(MaxRetries), MaxRetries),
      T("add_one", None, 0) }

LifeInputs == {Ok(Int_(1)), Err(Str(<<"bad input">>))}

\* what add_task sees of a decorated function: the wrapper's execute
Described(k, task) == FunctionTask(task.func, k, <<"Result[T, E]">>)

\* self.tasks.append(task)
InsertTask(ts, task) == <<task>> \o ts
AppendTask(ts, task) == Append(ts, task)

\* [p] * n: the list handed to run_parallel
Group(n, nm, ts) == [i \in 1..n |-> Pipe(nm, ts)]

\* the methods of a pipeline of kind k
Methods(k) ==
    IF k = "sync" THEN {"run", "run_parallel"} ELSE {"run", "fanout", "run_parallel"}

LifeInit ==
    /\ kind \in {"sync", "async"}
    /\ method = "none"
    /\ name = "P1"
    /\ tasks = <<>>
    /\ input_result = None
    /\ debug = FALSE
    /\ pc = "idle"
    /\ idx = 0
    /\ result = None
    /\ trace = <<>>
    /\ attempt = 0
    /\ last_exception = None
    /\ res = None
    /\ raised = Pending
    /\ ret = Pending
    /\ events = <<>>
    /\ slept = <<>>
    /\ log = <<>>
    /\ first = <<>>
    /\ inputs = <<>>
    /\ coros = <<>>
    /\ results = <<>>
    /\ order = <<>>
    /\ pipelines = <<>>
    /\ max_workers = 0
    /\ futures = <<>>
    /\ traces = <<>>
    /\ yielded = {}

\* pipeline.add_task(task) between two calls
Attach(task) ==
    /\ pc = "idle"
    /\ method = "none"
    /\ Len(tasks) < MaxTasks
    /\ tasks' = IF Validate(kind, Described(kind, task)).exc = NoExc
                THEN AppendTask(tasks, task)
                ELSE tasks
    /\ UNCHANGED <<kind, method, name, input_result, debug, pc, idx, result,
                   trace, attempt, last_exception, res, raised, ret, events,
                   slept, log, first, conc>>

\* the caller enters method m of the pipeline; run_parallel is given the
\* pipeline n times
CallMethod(m, n) ==
    /\ pc = "idle"
    /\ method = "none"
    /\ method' = m
    /\ pipelines' = IF m = "run_parallel" THEN Group(n, name, tasks) ELSE <<>>
    /\ UNCHANGED <<kind, name, tasks, input_result, debug, pc, idx, result,
                   trace, attempt, last_exception, res, raised, ret, events,
                   slept, log, first, inputs, coros, results, order,
                   max_workers, futures, traces, yielded>>

\* the call is over and its locals are gone; the pipeline object remains
Returned ==
    /\ pc = "done"
    /\ method # "none"
    /\ method' = "none"
    /\ pc' = "idle"
    /\ input_result' = None
    /\ debug' = FALSE
    /\ idx' = 0
    /\ result' = None
    /\ trace' = <<>>
    /\ attempt' = 0
    /\ last_exception' = None
    /\ res' = None
    /\ raised' = Pending
    /\ ret' = Pending
    /\ events' = <<>>
    /\ slept' = <<>>
    /\ log' = <<>>
    /\ inputs' = <<>>
    /\ coros' = <<>>
    /\ results' = <<>>
    /\ order' = <<>>
    /\ pipelines' = <<>>
    /\ max_workers' = 0
    /\ futures' = <<>>
    /\ traces' = <<>>
    /\ yielded' = {}
    /\ UNCHANGED <<kind, name, tasks, first>>

\* run_parallel is called with its default pool, the largest of the model
LifeNext ==
    \/ \E task \in LifeTasks : Attach(task)
    \/ \E m \in Methods(kind), n \in 0..MaxPipes : CallMethod(m, n)
    \/ method = "run" /\ \E inp \in LifeInputs, d \in BOOLEAN : Run(inp, d)
    \/ method = "run" /\ Invoke
    \/ method = "run" /\ Attempt
    \/ method = "run" /\ Exhausted
    \/ method = "run" /\ Except
    \/ method = "run" /\ Step
    \/ method = "run" /\ Finish
    \/ method = "fanout" /\ \E ins \in FanInputs, d \in BOOLEAN : FanRun(ins, d)
    \/ method = "fanout" /\ \E i \in DOMAIN coros : CoStart(i)
    \/ method = "fanout" /\ \E i \in DOMAIN coros : CoAttempt(i)
    \/ method = "fanout" /\ \E i \in DOMAIN coros : CoExhausted(i)
    \/ method = "fanout" /\ Gather
    \/ method = "fanout" /\ GatherRaise
    \/ method = "fanout" /\ FanExcept
    \/ method = "fanout" /\ FanCollect
    \/ /\ method = "run_parallel" /\ kind = "sync"
       /\ \E ins \in SeqsUpTo(LifeInputs, MaxPipes), w \in {MaxWorkers}, d \in BOOLEAN :
             ParRun(ins, w, d)
    \/ method = "run_parallel" /\ kind = "sync" /\ \E i \in DOMAIN futures : WorkerStart(i)
    \/ method = "run_parallel" /\ kind = "sync" /\ \E i \in DOMAIN futures : WorkerFinish(i)
    \/ method = "run_parallel" /\ kind = "sync" /\ \E i \in DOMAIN futures : Handle(i)
    \/ method = "run_parallel" /\ kind = "sync" /\ LoopEnd
    \/ method = "run_parallel" /\ kind = "sync" /\ PoolExit
    \/ /\ method = "run_parallel" /\ kind = "async"
       /\ \E ins \in SeqsUpTo(LifeInputs, MaxPipes), d \in BOOLEAN : AParRun(ins, d)
    \/ method = "run_parallel" /\ kind = "async" /\ \E i \in DOMAIN coros : SeqStart(i)
    \/ method = "run_parallel" /\ kind = "async" /\ \E i \in DOMAIN coros : SeqFinish(i)
    \/ method = "run_parallel" /\ kind = "async" /\ AParGather
    \/ method = "run_parallel" /\ kind = "async" /\ AParGatherRaise
    \/ method = "run_parallel" /\ kind = "async" /\ AParExcept
    \/ method = "run_parallel" /\ kind = "async" /\ AParCollect
    \/ Returned

LifeSpec == LifeInit /\ [][LifeNext]_vars

(***************************************************************************)
(* C35. Execution leaves pipelines unchanged: through any sequence of run, *)
(* run_sequence, fan-out run and run_parallel calls, successful, failed or *)
(* faulted, the pipeline's task list keeps the same tasks in the same      *)
(* order, and its name and each task's retry budget are unchanged; only    *)
(* add_task changes the task list, and only by appending.                  *)
(***************************************************************************)
C35_ExecutionLeavesPipelines ==
    [][/\ name' = name
       /\ (method # "none" \/ method' # "none") => tasks' = tasks
       /\ tasks' # tasks => \E t \in LifeTasks : tasks' = Append(tasks, t)
       /\ (method = "run_parallel" /\ method' = "run_parallel") =>
             /\ pipelines' = pipelines
             /\ \A i \in DOMAIN pipelines : pipelines[i] = Pipe(name, tasks)
      ]_vars

\* a run_parallel call on a full pipeline has ended in a failure
C35_Witness ==
    /\ method = "run_parallel"
    /\ pc = "done"
    /\ Len(tasks) = MaxTasks
    /\ Len(pipelines) = MaxPipes
    /\ Failed(ret)
    /\ \A i \in DOMAIN pipelines : pipelines[i].tasks = tasks

(***************************************************************************)
(* C36. Worker isolation in the parallel group: under every interleaving   *)
(* of the workers, the Outcome produced for pipeline i equals the Outcome  *)
(* of running pipeline i alone on input i; no worker touches another run's *)
(* Outcome or trace, and result slot i is written only by the aggregating  *)
(* caller and only with pipeline i's outcome, also when the same pipeline  *)
(* instance is passed at two positions.                                    *)
(***************************************************************************)
\* what pipeline i returns when run alone on input i with the group's flag
AloneAs(i, d) == IF d THEN AloneDebug(i) ELSE Alone(i)

\* the runs that are over, and the slots the caller has written
Over == {i \in DOMAIN futures : futures[i].state = "done"}
Written == {i \in DOMAIN results : results[i] # None}

LifeProgress == method # "none" /\ LifeNext
LifeFair == LifeSpec /\ WF_vars(LifeProgress)

(***************************************************************************)
(* C37. Every run reaches a terminal state: each call of a wrapped         *)
(* computation terminating, every sequential run, fan-out run and          *)
(* run_parallel that has been called eventually ends, and it starts        *)
(* running once; during one run each task is invoked at most once and its  *)
(* computation is called at most its retry budget times.                   *)
(***************************************************************************)
\* the retry budget of a task as a number of calls: range() of a budget
\* that is not an int makes none
CallsAllowed(task) == IF BudgetIsInt(task) THEN task.retries.v ELSE 0

\* the sequential run invoked each task at most once, within its budget
SeqBounded ==
    /\ \A a, b \in DOMAIN log : log[a].task = log[b].task => a = b
    /\ \A a \in DOMAIN log :
          Len(log[a].events) <= CallsAllowed(tasks[log[a].task])
    /\ pc = "attempt" => Len(events) <= CallsAllowed(tasks[idx])

\* the fan-out made one coroutine per task, each within its budget
FanBounded ==
    /\ Len(coros) <= Len(tasks)
    /\ \A i \in DOMAIN coros : Len(coros[i].events) <= CallsAllowed(tasks[i])

\* the group submitted one run per pipeline, and handled each at most once
ParBounded ==
    /\ Len(futures) <= Len(pipelines)
    /\ Len(order) <= Len(pipelines)
    /\ \A a, b \in DOMAIN order : order[a] = order[b] => a = b

RunBounded ==
    /\ method = "run" => SeqBounded
    /\ method = "fanout" => FanBounded
    /\ method = "run_parallel" => ParBounded

\* a call starts running once: it leaves "idle" when it starts, and the
\* pipeline is idle again only when the call is over and has returned
RunsOnce ==
    /\ (pc = "idle" /\ pc' # "idle") => method # "none"
    /\ (pc # "idle" /\ pc' = "idle") => (pc = "done" /\ method' = "none")
    /\ pc = "done" => pc' \in {"done", "idle"}

C37_RunTerminates ==
    /\ []RunBounded
    /\ [][RunsOnce]_vars
    /\ (method # "none") ~> (pc = "done")

\* a sequential run of a full pipeline whose last task used its whole budget
C37_Witness ==
    /\ method = "run"
    /\ pc = "done"
    /\ Len(tasks) = MaxTasks
    /\ Len(log) = MaxTasks
    /\ Len(log[MaxTasks].events) = MaxRetries

(***************************************************************************)
(* C39. A retry budget below 1 is accepted and not validated: invoking a   *)
(* task whose budget is 0 or less never calls its wrapped computation and  *)
(* returns the failure '[name] failed after <retries> retries: None', so a *)
(* sequential pipeline that contains such a task always fails, at that     *)
(* task at the latest.                                                     *)
(***************************************************************************)
\* the positions of the tasks whose budget is an int below 1
NoBudget == {i \in DOMAIN tasks : BudgetIsInt(tasks[i]) /\ tasks[i].retries.v < 1}

\* invocation a of the log made no call and returned the exhausted failure
NeverCalled(a) ==
    /\ log[a].events = <<>>
    /\ log[a].slept = <<>>
    /\ log[a].out = Return(Err(Str(ExhaustedMessage(tasks[log[a].task], None))))
    /\ Contains(log[a].out.val.value.v,
                <<" failed after ">> \o Format(tasks[log[a].task].retries)
                    \o <<" retries: ", "None">>)

\* the run stopped at the first task without a budget, or before it
StoppedBy(S) == \A a \in DOMAIN log : \A i \in S : log[a].task <= i

C39_NoBudgetAlwaysFails ==
    (pc = "done" /\ NoBudget # {}) =>
        /\ \A a \in DOMAIN log : log[a].task \in NoBudget => NeverCalled(a)
        /\ StoppedBy(NoBudget)
        /\ Failed(ret)

(***************************************************************************)
(* Sequential runs of pipelines that may start with a task that ignores    *)
(* its input: to_one returns Ok(1) whatever it is given.                   *)
(***************************************************************************)
BlindTasks ==
    { T("to_one", Int_(1), 0),
      T("add_one", Int_(1), 0),
      T("fail_task", Int_(1), 0),
      T("add_one", Int_(MaxRetries), MaxRetries),
      T("to_one", Int_(0), 0),
      T("add_one", None, 0) }

BlindInit ==
    /\ kind \in {"sync", "async"}
    /\ method = "run"
    /\ name = "P1"
    /\ tasks \in SeqsUpTo(BlindTasks, MaxTasks)
    /\ input_result = None
    /\ debug = FALSE
    /\ pc = "idle"
    /\ idx = 0
    /\ result = None
    /\ trace = <<>>
    /\ attempt = 0
    /\ last_exception = None
    /\ res = None
    /\ raised = Pending
    /\ ret = Pending
    /\ events = <<>>
    /\ slept = <<>>
    /\ log = <<>>
    /\ first = <<>>
    /\ inputs = <<>>
    /\ coros = <<>>
    /\ results = <<>>
    /\ order = <<>>
    /\ pipelines = <<>>
    /\ max_workers = 0
    /\ futures = <<>>
    /\ traces = <<>>
    /\ yielded = {}

BlindSpec == BlindInit /\ [][Next]_vars

(***************************************************************************)
(* C40. A sequential run does not inspect its initial input: when the      *)
(* input Outcome is already a failure and the pipeline has at least one    *)
(* task, the first task is still invoked exactly once, on that failure;    *)
(* short-circuiting is decided only from the Outcomes returned by tasks,   *)
(* so later tasks are skipped only if the first task returns a failure.    *)
(***************************************************************************)
\* task i has an invocation in the log of the run
Invoked(i) == \E a \in DOMAIN log : log[a].task = i

C40_InputNotInspected ==
    (pc = "done" /\ is_err(input_result) /\ Len(tasks) >= 1) =>
        /\ Len(log) >= 1
        /\ log[1].task = 1
        /\ log[1].input = input_result
        /\ \A a \in DOMAIN log : log[a].task = 1 => a = 1
        /\ BudgetIsInt(tasks[1]) => IsReturn(log[1].out)
        /\ (Len(tasks) >= 2 /\ ~Invoked(2)) => ~Succeeded(log[1].out)
        /\ (Len(tasks) >= 2 /\ Invoked(2)) => Succeeded(log[1].out)
        /\ \A a \in DOMAIN log :
              (a = Len(log) /\ log[a].task < Len(tasks)) => ~Succeeded(log[a].out)

\* on a failure input the first task, to_one, returned a success and every
\* later task of a full pipeline was invoked
C40_Witness ==
    /\ pc = "done"
    /\ is_err(input_result)
    /\ Len(tasks) = MaxTasks
    /\ tasks[1].func = "to_one"
    /\ Len(log) = MaxTasks
    /\ Succeeded(log[1].out)
    /\ Succeeded(ret)

====
